---- MODULE Spec2Model ----
(***************************************************************************)
(* Model of sakila_mcp/server.py: the intent-based dispatcher call_tool,   *)
(* its validators, the eighteen query builders and the scoped connection   *)
(* used by execute_query.                                                  *)
(*                                                                         *)
(* Python values are records [t, s, n]: t is the Python type, s the text   *)
(* of a str (a sequence of characters, or of longer chunks where the code  *)
(* never looks inside them), n the number of an int / bool / Decimal /     *)
(* float.  "absent" is a key missing from the argument map, "null" is None.*)
(* SQL text is the sequence of its whitespace-delimited tokens.            *)
(* The Japanese message literals of the source are written as ASCII        *)
(* glosses, one chunk per literal.                                         *)
(***************************************************************************)
EXTENDS Integers, Sequences, FiniteSets, TLC

VARIABLES
    pc,        \* position of the request inside call_tool
    name,      \* operation name of the request
    arguments, \* argument map of the request
    loc,       \* local variables of the running handler (validated arguments)
    step,      \* number of execute_query calls the handler has started
    ctx,       \* handler locals that live across awaits (rows fetched so far)
    sql,       \* SQL text of the execute_query call in progress
    params,    \* parameter tuple of the execute_query call in progress
    conn,      \* connection of the execute_query call in progress
    opened,    \* connections opened by the request so far
    closed,    \* connections closed by the request so far
    queries,   \* every (sql, params) the request handed to cursor.execute
    answers,   \* what the database answered to each round-trip of the request
    fault,     \* where the exception that ended the request was raised
    response,  \* what call_tool returned: a sequence of TextContent
    escaped,   \* TRUE when an exception left call_tool
    served,    \* number of requests answered so far
    fn,        \* ValidatorSpec: the validator under test
    vin,       \* ValidatorSpec: its argument
    vmax,      \* ValidatorSpec: its max_limit argument
    vout,      \* ValidatorSpec: its outcome
    tasks,     \* ConcurrentSpec: the call_tool coroutines in flight
    pool       \* ConcurrentSpec: every connection opened so far

vars == <<pc, name, arguments, loc, step, ctx, sql, params, conn, opened, closed,
          queries, answers, fault, response, escaped, served, fn, vin, vmax, vout,
          tasks, pool>>

reqVars == <<pc, name, arguments, loc, step, ctx, sql, params, conn, opened, closed,
             queries, answers, fault, response, escaped, served>>

unitVars == <<fn, vin, vmax, vout>>

concVars == <<tasks, pool>>

----------------------------------------------------------------------------
(* Bounds of the model *)

\* longest result set the database returns to one query
MaxRows == 2
\* longest string drawn over the rating alphabet for the validators
MaxStrLen == 2
\* integers drawn for the validators are -MaxInt .. MaxInt
MaxInt == 4
\* requests served before the model stops counting them
MaxServed == 2

----------------------------------------------------------------------------
(* Python values *)

ABSENT == [t |-> "absent", s |-> <<>>, n |-> 0]
None == [t |-> "null", s |-> <<>>, n |-> 0]
StrV(cs) == [t |-> "str", s |-> cs, n |-> 0]
IntV(k) == [t |-> "int", s |-> <<>>, n |-> k]
BoolV(b) == [t |-> "bool", s |-> <<>>, n |-> IF b THEN 1 ELSE 0]
DecimalV(k) == [t |-> "decimal", s |-> <<>>, n |-> k]
FloatV(k) == [t |-> "float", s |-> <<>>, n |-> k]
\* a JSON array: unhashable, has no .upper(), int() rejects it
ListV == [t |-> "list", s |-> <<>>, n |-> 1]

IsNumber(v) == v.t \in {"int", "bool", "decimal", "float"}

\* bool(v), as used by "if v:" and "v or 0"
Truthy(v) ==
    CASE v.t \in {"absent", "null"} -> FALSE
      [] v.t = "str" -> v.s # <<>>
      [] v.t = "list" -> TRUE
      [] OTHER -> v.n # 0

\* str(v) for the values that reach an error message
RECURSIVE Digits(_)
Digits(k) == IF k < 10 THEN <<SubSeq(<<"0","1","2","3","4","5","6","7","8","9">>, k + 1, k + 1)[1]>>
             ELSE Digits(k \div 10) \o Digits(k % 10)

PyStr(v) ==
    CASE v.t = "str" -> v.s
      [] v.t = "null" -> <<"None">>
      [] v.t = "bool" -> IF v.n = 1 THEN <<"True">> ELSE <<"False">>
      [] v.t = "list" -> <<"[", "1", "]">>
      [] OTHER -> IF v.n < 0 THEN <<"-">> \o Digits(0 - v.n) ELSE Digits(v.n)

\* exceptions: ty is the Python class, msg the text of str(e)
NoExc == [ty |-> "none", msg |-> <<>>]
Exc(ty, msg) == [ty |-> ty, msg |-> msg]
Ok(v) == [exc |-> NoExc, val |-> v]
Raise(ty, msg) == [exc |-> Exc(ty, msg), val |-> None]

\* the argument names of the eighteen operations; an argument map gives each
\* a value, ABSENT for a key it does not hold
Keys == {"title", "category", "rating", "actor_name", "release_year", "limit",
         "store_id", "name", "email", "active_only", "customer_id", "status",
         "days_overdue", "period", "group_by", "metric", "days_not_rented"}

NoArgs == [k \in Keys |-> ABSENT]
NoFault == [at |-> "none", exc |-> NoExc]

----------------------------------------------------------------------------
(* str.upper() and str.lower() over the ASCII letters *)

LowerCase == <<"a","b","c","d","e","f","g","h","i","j","k","l","m",
               "n","o","p","q","r","s","t","u","v","w","x","y","z">>
UpperCase == <<"A","B","C","D","E","F","G","H","I","J","K","L","M",
               "N","O","P","Q","R","S","T","U","V","W","X","Y","Z">>

UpperChar(c) == IF \E i \in 1..Len(LowerCase) : LowerCase[i] = c
                THEN UpperCase[CHOOSE i \in 1..Len(LowerCase) : LowerCase[i] = c]
                ELSE c
LowerChar(c) == IF \E i \in 1..Len(UpperCase) : UpperCase[i] = c
                THEN LowerCase[CHOOSE i \in 1..Len(UpperCase) : UpperCase[i] = c]
                ELSE c

upper(cs) == [i \in 1..Len(cs) |-> UpperChar(cs[i])]
lower(cs) == [i \in 1..Len(cs) |-> LowerChar(cs[i])]

RECURSIVE Join(_, _)
\* sep.join(parts)
Join(parts, sep) ==
    IF parts = <<>> THEN <<>>
    ELSE IF Len(parts) = 1 THEN parts[1]
    ELSE parts[1] \o sep \o Join(Tail(parts), sep)

\* needle in haystack, for str
Contains(hay, needle) ==
    \E i \in 0..(Len(hay) - Len(needle)) : SubSeq(hay, i + 1, i + Len(needle)) = needle

StartsWith(text, prefix) ==
    Len(text) >= Len(prefix) /\ SubSeq(text, 1, Len(prefix)) = prefix

----------------------------------------------------------------------------
(* Validation constants, server.py lines 27-35 *)

VALID_RATINGS == { <<"G">>, <<"P","G">>, <<"P","G","-","1","3">>, <<"R">>,
                   <<"N","C","-","1","7">> }
\* sorted(VALID_RATINGS): code-point order puts "-" and digits before letters
SortedRatings == << <<"G">>, <<"N","C","-","1","7">>, <<"P","G">>,
                    <<"P","G","-","1","3">>, <<"R">> >>
VALID_STORES == {1, 2}
VALID_RENTAL_STATUS == { <<"a","l","l">>, <<"a","c","t","i","v","e">>,
                         <<"r","e","t","u","r","n","e","d">> }
VALID_GROUP_BY == { <<"s","t","o","r","e">>, <<"c","a","t","e","g","o","r","y">>,
                    <<"m","o","n","t","h">>, <<"s","t","a","f","f">> }
VALID_PERIOD == { <<"a","l","l","_","t","i","m","e">>,
                  <<"l","a","s","t","_","m","o","n","t","h">>,
                  <<"l","a","s","t","_","w","e","e","k">> }
VALID_METRICS == { <<"r","e","n","t","a","l","s">>,
                   <<"s","p","e","n","d","i","n","g">> }
MAX_LIMIT == 50
DEFAULT_LIMIT == 10

----------------------------------------------------------------------------
(* Validators, server.py lines 43-106 *)

\* the literal parts of the validators' messages
INVALID_RATING == "invalid rating (muko na reetingu): "
INVALID_STORE == "invalid store id (muko na tenpo ID): "
VALID_VALUES == ". valid values (yuko na atai): "

\* a rating in the valid set is returned unchanged, without upper-casing
validate_rating_CaseSensitive(rating) ==
    IF rating.t = "null" THEN Ok(None)
    ELSE IF rating.t # "str" THEN Raise("AttributeError", <<"no attribute 'upper'">>)
    ELSE IF rating.s \notin VALID_RATINGS
         THEN Raise("ValueError",
                    <<INVALID_RATING>> \o rating.s \o <<VALID_VALUES>>
                        \o Join(SortedRatings, <<", ">>))
         ELSE Ok(StrV(rating.s))

validate_rating(rating) ==
    IF rating.t = "null" THEN Ok(None)
    ELSE IF rating.t # "str" THEN Raise("AttributeError", <<"no attribute 'upper'">>)
    ELSE LET rating_upper == upper(rating.s) IN
         IF rating_upper \notin VALID_RATINGS
         THEN Raise("ValueError",
                    <<INVALID_RATING>> \o rating.s \o <<VALID_VALUES>>
                        \o Join(SortedRatings, <<", ">>))
         ELSE Ok(StrV(rating_upper))

\* a range test instead of the membership test
validate_store_id_UpTo2(store_id) ==
    IF store_id.t = "null" THEN Ok(None)
    ELSE IF store_id.t = "list" THEN Raise("TypeError", <<"unhashable type: 'list'">>)
    ELSE IF ~(IsNumber(store_id) /\ store_id.n <= 2)
         THEN Raise("ValueError",
                    <<INVALID_STORE>> \o PyStr(store_id) \o <<VALID_VALUES, "1, 2">>)
         ELSE Ok(store_id)

validate_store_id(store_id) ==
    IF store_id.t = "null" THEN Ok(None)
    ELSE IF store_id.t = "list" THEN Raise("TypeError", <<"unhashable type: 'list'">>)
    ELSE IF ~(IsNumber(store_id) /\ store_id.n \in VALID_STORES)
         THEN Raise("ValueError",
                    <<INVALID_STORE>> \o PyStr(store_id) \o <<VALID_VALUES, "1, 2">>)
         ELSE Ok(store_id)


\* int(x): the digits of a str, an optional sign first
DigitChars == <<"0","1","2","3","4","5","6","7","8","9">>
IsDigit(c) == \E i \in 1..10 : DigitChars[i] = c
DigitVal(c) == (CHOOSE i \in 1..10 : DigitChars[i] = c) - 1
RECURSIVE ParseDigits(_, _)
ParseDigits(cs, acc) ==
    IF cs = <<>> THEN acc ELSE ParseDigits(Tail(cs), acc * 10 + DigitVal(Head(cs)))
IsIntLiteral(cs) ==
    LET body == IF cs # <<>> /\ Head(cs) = "-" THEN Tail(cs) ELSE cs IN
    body # <<>> /\ \A i \in 1..Len(body) : IsDigit(body[i])
IntLiteral(cs) ==
    IF Head(cs) = "-" THEN 0 - ParseDigits(Tail(cs), 0) ELSE ParseDigits(cs, 0)

PyIntOf(v) ==
    CASE v.t = "str" ->
            IF IsIntLiteral(v.s) THEN Ok(IntV(IntLiteral(v.s)))
            ELSE Raise("ValueError", <<"invalid literal for int() with base 10: '">>
                                         \o v.s \o <<"'">>)
      [] v.t \in {"list", "null", "absent"} ->
            Raise("TypeError", <<"int() argument must be a string or a number">>)
      [] OTHER -> Ok(IntV(v.n))

Min(a, b) == IF a < b THEN a ELSE b
Max(a, b) == IF a > b THEN a ELSE b

\* the upper clamp is missing: max(1, int(limit))
validate_limit_NoCap(limit, max_limit) ==
    IF limit.t = "null" THEN Ok(IntV(DEFAULT_LIMIT))
    ELSE LET i == PyIntOf(limit) IN
         IF i.exc.ty # "none" THEN i
         ELSE Ok(IntV(Max(1, i.val.n)))

\* the lower clamp is missing: min(max_limit, int(limit))
validate_limit_NoFloor(limit, max_limit) ==
    IF limit.t = "null" THEN Ok(IntV(DEFAULT_LIMIT))
    ELSE LET i == PyIntOf(limit) IN
         IF i.exc.ty # "none" THEN i
         ELSE Ok(IntV(Min(max_limit, i.val.n)))

validate_limit(limit, max_limit) ==
    IF limit.t = "null" THEN Ok(IntV(DEFAULT_LIMIT))
    ELSE LET i == PyIntOf(limit) IN
         IF i.exc.ty # "none" THEN i
         ELSE Ok(IntV(Max(1, Min(max_limit, i.val.n))))

INVALID_STATUS == "invalid status (muko na suteetasu): "
INVALID_GROUP_BY == "invalid grouping (muko na shukei tan'i): "
INVALID_PERIOD == "invalid period (muko na kikan): "
INVALID_METRIC == "invalid metric (muko na metorikusu): "

\* the shared shape of the four enum validators: default, lower(), membership
validate_enum(v, default, valid, label, listing) ==
    IF v.t = "null" THEN Ok(StrV(default))
    ELSE IF v.t # "str" THEN Raise("AttributeError", <<"no attribute 'lower'">>)
    ELSE LET lowered == lower(v.s) IN
         IF lowered \notin valid
         THEN Raise("ValueError", <<label>> \o v.s \o <<VALID_VALUES, listing>>)
         ELSE Ok(StrV(lowered))

validate_rental_status(status) ==
    validate_enum(status, <<"a","l","l">>, VALID_RENTAL_STATUS, INVALID_STATUS,
                  "all, active, returned")

validate_group_by(group_by) ==
    validate_enum(group_by, <<"s","t","o","r","e">>, VALID_GROUP_BY, INVALID_GROUP_BY,
                  "store, category, month, staff")

validate_period(period) ==
    validate_enum(period, <<"a","l","l","_","t","i","m","e">>, VALID_PERIOD,
                  INVALID_PERIOD, "all_time, last_month, last_week")

validate_metric(metric) ==
    validate_enum(metric, <<"s","p","e","n","d","i","n","g">>, VALID_METRICS,
                  INVALID_METRIC, "rentals, spending")

\* the exception of the first statement that raises, in program order
RECURSIVE FirstExc(_)
FirstExc(es) ==
    IF es = <<>> THEN NoExc
    ELSE IF Head(es).ty # "none" THEN Head(es) ELSE FirstExc(Tail(es))


----------------------------------------------------------------------------
(* Rows, results and the outcome of one stretch of a handler *)

\* A row of a result set. key is the column a follow-up query is keyed on
\* (title, actor_id, customer_id; also name), cnt a COUNT column, amt the
\* SUM / monetary column, rate a second decimal column (rental_rate,
\* turnover_rate, avg_rentals_per_film). wf is FALSE when a column the
\* handler subscripts is missing from the row. rank is set by the handlers
\* that number their output.
Row(key, cnt, amt, rate, wf) ==
    [key |-> key, cnt |-> cnt, amt |-> amt, rate |-> rate, wf |-> wf, rank |-> 0]

NoneResult == [kind |-> "none", rows |-> <<>>, fields |-> <<>>]
ListResult(rows) == [kind |-> "list", rows |-> rows, fields |-> <<>>]
DictResult(fields, rows) == [kind |-> "dict", rows |-> rows, fields |-> fields]

\* what a handler does next: awaits execute_query, returns, or raises
Query(s, p) ==
    [k |-> "query", sql |-> s, params |-> p, result |-> NoneResult, exc |-> NoExc]
Return(r) ==
    [k |-> "return", sql |-> <<>>, params |-> <<>>, result |-> r, exc |-> NoExc]
Throw(e) ==
    [k |-> "raise", sql |-> <<>>, params |-> <<>>, result |-> NoneResult, exc |-> e]

KeyError == Exc("KeyError", <<"'column'">>)

\* float(v)
FloatOf(v) ==
    CASE v.t = "str" ->
            IF IsIntLiteral(v.s) THEN Ok(FloatV(IntLiteral(v.s)))
            ELSE Raise("ValueError", <<"could not convert string to float: '">>
                                         \o v.s \o <<"'">>)
      [] v.t \in {"null", "absent", "list"} ->
            Raise("TypeError", <<"float() argument must be a string or a real number">>)
      [] OTHER -> Ok(FloatV(v.n))

\* float(v) if v else 0.0
FloatOrZero(v) == IF Truthy(v) THEN FloatOf(v) ELSE Ok(FloatV(0))

\* a list comprehension over rows: F(r, i) is [exc, val] for the i-th row; the
\* first row that raises ends it
Comprehension(rows, F(_, _)) ==
    LET each == [i \in 1..Len(rows) |-> F(rows[i], i)] IN
    [exc |-> FirstExc([i \in 1..Len(rows) |-> each[i].exc]),
     val |-> [i \in 1..Len(rows) |-> each[i].val]]

\* [r["name"] for r in rows] and the like: only subscripts
Subscripted(r, i) == IF r.wf THEN Ok(r) ELSE [exc |-> KeyError, val |-> r]

\* f"%{v}%"
Like(v) == StrV(<<"%">> \o PyStr(v) \o <<"%">>)

\* sum(r[col] for r in rows) over the cnt column, starting from the int 0
RECURSIVE SumCnt(_)
SumCnt(rows) ==
    IF rows = <<>> THEN Ok(IntV(0))
    ELSE LET r == rows[Len(rows)]
             before == SumCnt(SubSeq(rows, 1, Len(rows) - 1)) IN
         IF before.exc.ty # "none" THEN before
         ELSE IF ~r.wf THEN [exc |-> KeyError, val |-> None]
         ELSE IF ~IsNumber(r.cnt)
              THEN Raise("TypeError", <<"unsupported operand type(s) for +">>)
              ELSE Ok(IntV(before.val.n + r.cnt.n))

\* sum(r["total_revenue"] for r in summary) over converted rows
RECURSIVE SumAmt(_)
SumAmt(rows) ==
    IF rows = <<>> THEN Ok(IntV(0))
    ELSE LET r == rows[Len(rows)]
             before == SumAmt(SubSeq(rows, 1, Len(rows) - 1)) IN
         IF before.exc.ty # "none" THEN before
         ELSE IF ~r.wf THEN [exc |-> KeyError, val |-> None]
         ELSE Ok(FloatV(before.val.n + r.amt.n))

----------------------------------------------------------------------------
(* Film search and information, server.py lines 159-368 *)

TITLE_REQUIRED == "specify a title (taitoru wo shitei shite kudasai)"
ACTOR_REQUIRED == "specify an actor name (haiyu-mei wo shitei shite kudasai)"
CUSTOMER_REQUIRED == "specify customer_id or email (customer_id mata wa email wo shitei shite kudasai)"

Validated(excs, l) == [exc |-> FirstExc(excs), loc |-> l]

search_films_validate(a) ==
    LET rating == validate_rating(a.rating)
        limit == validate_limit(a.limit, MAX_LIMIT) IN
    Validated(<<rating.exc, limit.exc>>,
              [a EXCEPT !.rating = rating.val, !.limit = limit.val])

\* one optional clause: appended with its parameter only when cond holds
Clause(cond, tokens) == IF cond THEN tokens ELSE <<>>
Param(cond, v) == IF cond THEN <<v>> ELSE <<>>

search_films_base ==
    <<"SELECT", "DISTINCT",
      "f.title, f.description, f.release_year, f.rating, c.name as category, f.rental_rate, f.length as length_minutes",
      "FROM", "film", "f",
      "LEFT", "JOIN", "film_category", "fc", "ON", "f.film_id = fc.film_id",
      "LEFT", "JOIN", "category", "c", "ON", "fc.category_id = c.category_id",
      "LEFT", "JOIN", "film_actor", "fa", "ON", "f.film_id = fa.film_id",
      "LEFT", "JOIN", "actor", "a", "ON", "fa.actor_id = a.actor_id",
      "WHERE", "1=1">>

\* the title is pasted into the SQL text instead of being bound
search_films_Interpolated(l, rs) ==
    IF Len(rs) = 0
    THEN Query(search_films_base
                 \o Clause(Truthy(l.title),
                           <<"AND", "f.title", "LIKE", "'%">> \o PyStr(l.title) \o <<"%'">>)
                 \o Clause(Truthy(l.category), <<"AND", "c.name", "=", "%s">>)
                 \o Clause(Truthy(l.rating), <<"AND", "f.rating", "=", "%s">>)
                 \o Clause(Truthy(l.actor_name),
                           <<"AND", "CONCAT(a.first_name, ' ', a.last_name)", "LIKE", "%s">>)
                 \o Clause(Truthy(l.release_year), <<"AND", "f.release_year", "=", "%s">>)
                 \o <<"ORDER", "BY", "f.title", "LIMIT", "%s">>,
               Param(Truthy(l.category), l.category)
                 \o Param(Truthy(l.rating), l.rating)
                 \o Param(Truthy(l.actor_name), Like(l.actor_name))
                 \o Param(Truthy(l.release_year), l.release_year)
                 \o <<l.limit>>)
    ELSE Return(ListResult(rs[1]))

\* the release_year clause is appended without its parameter
search_films_MissingParam(l, rs) ==
    IF Len(rs) = 0
    THEN Query(search_films_base
                 \o Clause(Truthy(l.title), <<"AND", "f.title", "LIKE", "%s">>)
                 \o Clause(Truthy(l.category), <<"AND", "c.name", "=", "%s">>)
                 \o Clause(Truthy(l.rating), <<"AND", "f.rating", "=", "%s">>)
                 \o Clause(Truthy(l.actor_name),
                           <<"AND", "CONCAT(a.first_name, ' ', a.last_name)", "LIKE", "%s">>)
                 \o Clause(Truthy(l.release_year), <<"AND", "f.release_year", "=", "%s">>)
                 \o <<"ORDER", "BY", "f.title", "LIMIT", "%s">>,
               Param(Truthy(l.title), Like(l.title))
                 \o Param(Truthy(l.category), l.category)
                 \o Param(Truthy(l.rating), l.rating)
                 \o Param(Truthy(l.actor_name), Like(l.actor_name))
                 \o <<l.limit>>)
    ELSE Return(ListResult(rs[1]))

search_films(l, rs) ==
    IF Len(rs) = 0
    THEN Query(search_films_base
                 \o Clause(Truthy(l.title), <<"AND", "f.title", "LIKE", "%s">>)
                 \o Clause(Truthy(l.category), <<"AND", "c.name", "=", "%s">>)
                 \o Clause(Truthy(l.rating), <<"AND", "f.rating", "=", "%s">>)
                 \o Clause(Truthy(l.actor_name),
                           <<"AND", "CONCAT(a.first_name, ' ', a.last_name)", "LIKE", "%s">>)
                 \o Clause(Truthy(l.release_year), <<"AND", "f.release_year", "=", "%s">>)
                 \o <<"ORDER", "BY", "f.title", "LIMIT", "%s">>,
               Param(Truthy(l.title), Like(l.title))
                 \o Param(Truthy(l.category), l.category)
                 \o Param(Truthy(l.rating), l.rating)
                 \o Param(Truthy(l.actor_name), Like(l.actor_name))
                 \o Param(Truthy(l.release_year), l.release_year)
                 \o <<l.limit>>)
    ELSE Return(ListResult(rs[1]))

get_film_details_validate(a) ==
    Validated(<<IF ~Truthy(a.title) THEN Exc("ValueError", <<TITLE_REQUIRED>>) ELSE NoExc>>,
              a)

get_film_details_sql ==
    <<"SELECT",
      "f.title, f.description, f.release_year, f.rating, f.rental_rate, f.rental_duration as rental_duration_days, f.length as length_minutes, f.replacement_cost, f.special_features",
      "FROM", "film", "f", "WHERE", "f.title", "LIKE", "%s", "LIMIT", "1">>
get_film_details_cat_sql ==
    <<"SELECT", "c.name", "FROM", "category", "c",
      "JOIN", "film_category", "fc", "ON", "c.category_id = fc.category_id",
      "JOIN", "film", "f", "ON", "fc.film_id = f.film_id",
      "WHERE", "f.title", "=", "%s">>
get_film_details_actor_sql ==
    <<"SELECT", "CONCAT(a.first_name, ' ', a.last_name) as name", "FROM", "actor", "a",
      "JOIN", "film_actor", "fa", "ON", "a.actor_id = fa.actor_id",
      "JOIN", "film", "f", "ON", "fa.film_id = f.film_id",
      "WHERE", "f.title", "=", "%s", "ORDER", "BY", "a.last_name, a.first_name">>
get_film_details_inv_sql ==
    <<"SELECT",
      "COUNT(i.inventory_id) as total_copies, COUNT(i.inventory_id) - COUNT(r.rental_id) as available_copies",
      "FROM", "inventory", "i", "JOIN", "film", "f", "ON", "i.film_id = f.film_id",
      "LEFT", "JOIN", "rental", "r", "ON",
      "i.inventory_id = r.inventory_id AND r.return_date IS NULL",
      "WHERE", "f.title", "=", "%s">>

\* the not-found test is missing: results[0] is read from an empty list
get_film_details_NoNotFound(l, rs) ==
    CASE Len(rs) = 0 -> Query(get_film_details_sql, <<Like(l.title)>>)
      [] Len(rs) = 1 ->
            IF rs[1] = <<>> THEN Throw(Exc("IndexError", <<"list index out of range">>))
            ELSE IF ~rs[1][1].wf THEN Throw(KeyError)
            ELSE Query(get_film_details_cat_sql, <<rs[1][1].key>>)
      [] Len(rs) = 2 ->
            IF Comprehension(rs[2], Subscripted).exc.ty # "none" THEN Throw(KeyError)
            ELSE Query(get_film_details_actor_sql, <<rs[1][1].key>>)
      [] Len(rs) = 3 ->
            IF Comprehension(rs[3], Subscripted).exc.ty # "none" THEN Throw(KeyError)
            ELSE Query(get_film_details_inv_sql, <<rs[1][1].key>>)
      [] OTHER ->
            IF rs[4] # <<>> /\ ~rs[4][1].wf THEN Throw(KeyError)
            ELSE Return(DictResult(
                    <<<<"title", rs[1][1].key>>, <<"rental_rate", rs[1][1].rate>>>>
                      \o IF rs[4] # <<>>
                         THEN <<<<"total_copies", rs[4][1].cnt>>>>
                         ELSE <<>>,
                    rs[2] \o rs[3]))

get_film_details(l, rs) ==
    CASE Len(rs) = 0 -> Query(get_film_details_sql, <<Like(l.title)>>)
      [] Len(rs) = 1 ->
            IF rs[1] = <<>> THEN Return(NoneResult)
            ELSE IF ~rs[1][1].wf THEN Throw(KeyError)
            ELSE Query(get_film_details_cat_sql, <<rs[1][1].key>>)
      [] Len(rs) = 2 ->
            IF Comprehension(rs[2], Subscripted).exc.ty # "none" THEN Throw(KeyError)
            ELSE Query(get_film_details_actor_sql, <<rs[1][1].key>>)
      [] Len(rs) = 3 ->
            IF Comprehension(rs[3], Subscripted).exc.ty # "none" THEN Throw(KeyError)
            ELSE Query(get_film_details_inv_sql, <<rs[1][1].key>>)
      [] OTHER ->
            IF rs[4] # <<>> /\ ~rs[4][1].wf THEN Throw(KeyError)
            ELSE Return(DictResult(
                    <<<<"title", rs[1][1].key>>, <<"rental_rate", rs[1][1].rate>>>>
                      \o IF rs[4] # <<>>
                         THEN <<<<"total_copies", rs[4][1].cnt>>>>
                         ELSE <<>>,
                    rs[2] \o rs[3]))

list_categories(l, rs) ==
    IF Len(rs) = 0
    THEN Query(<<"SELECT", "name", "FROM", "category", "ORDER", "BY", "name">>, <<>>)
    ELSE LET names == Comprehension(rs[1], Subscripted) IN
         IF names.exc.ty # "none" THEN Throw(names.exc)
         ELSE Return(ListResult(names.val))

check_film_availability_validate(a) ==
    LET store_id == validate_store_id(a.store_id) IN
    Validated(<<IF ~Truthy(a.title) THEN Exc("ValueError", <<TITLE_REQUIRED>>) ELSE NoExc,
                store_id.exc>>,
              [a EXCEPT !.store_id = store_id.val])

check_film_availability_sql ==
    <<"SELECT",
      "s.store_id, CONCAT('Store ', s.store_id) as store, COUNT(i.inventory_id) as total, COUNT(i.inventory_id) - COUNT(r.rental_id) as available",
      "FROM", "store", "s",
      "JOIN", "inventory", "i", "ON", "s.store_id = i.store_id",
      "JOIN", "film", "f", "ON", "i.film_id = f.film_id",
      "LEFT", "JOIN", "rental", "r", "ON",
      "i.inventory_id = r.inventory_id AND r.return_date IS NULL",
      "WHERE", "f.title", "=", "%s">>

\* the first lookup pastes the title into the SQL text
check_film_availability_Interpolated(l, rs) ==
    CASE Len(rs) = 0 ->
            Query(<<"SELECT", "title", "FROM", "film", "WHERE", "title", "LIKE", "'%">>
                    \o PyStr(l.title) \o <<"%'", "LIMIT", "1">>,
                  <<>>)
      [] Len(rs) = 1 ->
            IF rs[1] = <<>> THEN Return(NoneResult)
            ELSE IF ~rs[1][1].wf THEN Throw(KeyError)
            ELSE Query(check_film_availability_sql
                         \o Clause(Truthy(l.store_id), <<"AND", "s.store_id", "=", "%s">>)
                         \o <<"GROUP", "BY", "s.store_id", "ORDER", "BY", "s.store_id">>,
                       <<rs[1][1].key>> \o Param(Truthy(l.store_id), l.store_id))
      [] OTHER ->
            LET total == SumCnt(rs[2]) IN
            IF total.exc.ty # "none" THEN Throw(total.exc)
            ELSE Return(DictResult(
                    <<<<"title", rs[1][1].key>>, <<"overall_available", total.val>>,
                      <<"overall_total", total.val>>>>,
                    rs[2]))

check_film_availability(l, rs) ==
    CASE Len(rs) = 0 ->
            Query(<<"SELECT", "title", "FROM", "film", "WHERE", "title", "LIKE", "%s",
                    "LIMIT", "1">>,
                  <<Like(l.title)>>)
      [] Len(rs) = 1 ->
            IF rs[1] = <<>> THEN Return(NoneResult)
            ELSE IF ~rs[1][1].wf THEN Throw(KeyError)
            ELSE Query(check_film_availability_sql
                         \o Clause(Truthy(l.store_id), <<"AND", "s.store_id", "=", "%s">>)
                         \o <<"GROUP", "BY", "s.store_id", "ORDER", "BY", "s.store_id">>,
                       <<rs[1][1].key>> \o Param(Truthy(l.store_id), l.store_id))
      [] OTHER ->
            LET total == SumCnt(rs[2]) IN
            IF total.exc.ty # "none" THEN Throw(total.exc)
            ELSE Return(DictResult(
                    <<<<"title", rs[1][1].key>>, <<"overall_available", total.val>>,
                      <<"overall_total", total.val>>>>,
                    rs[2]))

get_actor_filmography_validate(a) ==
    Validated(<<IF ~Truthy(a.actor_name) THEN Exc("ValueError", <<ACTOR_REQUIRED>>)
                ELSE NoExc>>,
              a)

\* the films looked up by the caller's pattern again
get_actor_filmography_KeyedOnName(l, rs) ==
    CASE Len(rs) = 0 ->
            Query(<<"SELECT", "actor_id, CONCAT(first_name, ' ', last_name) as name",
                    "FROM", "actor", "WHERE", "CONCAT(first_name, ' ', last_name)",
                    "LIKE", "%s", "LIMIT", "1">>,
                  <<Like(l.actor_name)>>)
      [] Len(rs) = 1 ->
            IF rs[1] = <<>> THEN Return(NoneResult)
            ELSE IF ~rs[1][1].wf THEN Throw(KeyError)
            ELSE Query(<<"SELECT", "f.title, f.release_year, c.name as category",
                         "FROM", "film", "f",
                         "JOIN", "film_actor", "fa", "ON", "f.film_id = fa.film_id",
                         "JOIN", "film_category", "fc", "ON", "f.film_id = fc.film_id",
                         "JOIN", "category", "c", "ON", "fc.category_id = c.category_id",
                         "WHERE", "fa.actor_id", "=", "%s",
                         "ORDER", "BY", "f.release_year DESC, f.title">>,
                       <<Like(l.actor_name)>>)
      [] OTHER ->
            LET films == Comprehension(rs[2], Subscripted) IN
            IF films.exc.ty # "none" THEN Throw(films.exc)
            ELSE Return(DictResult(
                    <<<<"actor_name", rs[1][1].key>>, <<"total_films", IntV(Len(rs[2]))>>>>,
                    films.val))

get_actor_filmography(l, rs) ==
    CASE Len(rs) = 0 ->
            Query(<<"SELECT", "actor_id, CONCAT(first_name, ' ', last_name) as name",
                    "FROM", "actor", "WHERE", "CONCAT(first_name, ' ', last_name)",
                    "LIKE", "%s", "LIMIT", "1">>,
                  <<Like(l.actor_name)>>)
      [] Len(rs) = 1 ->
            IF rs[1] = <<>> THEN Return(NoneResult)
            ELSE IF ~rs[1][1].wf THEN Throw(KeyError)
            ELSE Query(<<"SELECT", "f.title, f.release_year, c.name as category",
                         "FROM", "film", "f",
                         "JOIN", "film_actor", "fa", "ON", "f.film_id = fa.film_id",
                         "JOIN", "film_category", "fc", "ON", "f.film_id = fc.film_id",
                         "JOIN", "category", "c", "ON", "fc.category_id = c.category_id",
                         "WHERE", "fa.actor_id", "=", "%s",
                         "ORDER", "BY", "f.release_year DESC, f.title">>,
                       <<rs[1][1].key>>)
      [] OTHER ->
            LET films == Comprehension(rs[2], Subscripted) IN
            IF films.exc.ty # "none" THEN Throw(films.exc)
            ELSE Return(DictResult(
                    <<<<"actor_name", rs[1][1].key>>, <<"total_films", IntV(Len(rs[2]))>>>>,
                    films.val))

----------------------------------------------------------------------------
(* Customers and rentals, server.py lines 376-576 *)

search_customers_validate(a) ==
    LET store_id == validate_store_id(a.store_id)
        limit == validate_limit(a.limit, MAX_LIMIT) IN
    Validated(<<store_id.exc, limit.exc>>,
              [a EXCEPT !.store_id = store_id.val, !.limit = limit.val])

search_customers_base ==
    <<"SELECT",
      "c.customer_id, CONCAT(c.first_name, ' ', c.last_name) as name, c.email, CONCAT('Store ', c.store_id) as store, c.active, DATE(c.create_date) as registration_date",
      "FROM", "customer", "c", "WHERE", "1=1">>

\* the limit bound first, before the filters
search_customers_LimitFirst(l, rs) ==
    IF Len(rs) = 0
    THEN Query(search_customers_base
                 \o Clause(Truthy(l.name),
                           <<"AND", "CONCAT(c.first_name, ' ', c.last_name)", "LIKE", "%s">>)
                 \o Clause(Truthy(l.email), <<"AND", "c.email", "LIKE", "%s">>)
                 \o Clause(Truthy(l.store_id), <<"AND", "c.store_id", "=", "%s">>)
                 \o Clause(Truthy(l.active_only), <<"AND", "c.active", "=", "1">>)
                 \o <<"ORDER", "BY", "c.last_name, c.first_name", "LIMIT", "%s">>,
               <<l.limit>>
                 \o Param(Truthy(l.name), Like(l.name))
                 \o Param(Truthy(l.email), Like(l.email))
                 \o Param(Truthy(l.store_id), l.store_id))
    ELSE Return(ListResult(rs[1]))

search_customers(l, rs) ==
    IF Len(rs) = 0
    THEN Query(search_customers_base
                 \o Clause(Truthy(l.name),
                           <<"AND", "CONCAT(c.first_name, ' ', c.last_name)", "LIKE", "%s">>)
                 \o Clause(Truthy(l.email), <<"AND", "c.email", "LIKE", "%s">>)
                 \o Clause(Truthy(l.store_id), <<"AND", "c.store_id", "=", "%s">>)
                 \o Clause(Truthy(l.active_only), <<"AND", "c.active", "=", "1">>)
                 \o <<"ORDER", "BY", "c.last_name, c.first_name", "LIMIT", "%s">>,
               Param(Truthy(l.name), Like(l.name))
                 \o Param(Truthy(l.email), Like(l.email))
                 \o Param(Truthy(l.store_id), l.store_id)
                 \o <<l.limit>>)
    ELSE Return(ListResult(rs[1]))

get_customer_details_validate(a) ==
    Validated(<<IF ~Truthy(a.customer_id) /\ ~Truthy(a.email)
                THEN Exc("ValueError", <<CUSTOMER_REQUIRED>>) ELSE NoExc>>,
              a)

get_customer_details_base ==
    <<"SELECT",
      "c.customer_id, CONCAT(c.first_name, ' ', c.last_name) as name, c.email, CONCAT(a.address, ', ', ci.city, ', ', co.country) as address, a.phone, CONCAT('Store ', c.store_id) as store, c.active, DATE(c.create_date) as registration_date",
      "FROM", "customer", "c",
      "JOIN", "address", "a", "ON", "c.address_id = a.address_id",
      "JOIN", "city", "ci", "ON", "a.city_id = ci.city_id",
      "JOIN", "country", "co", "ON", "ci.country_id = co.country_id",
      "WHERE", "1=1">>
get_customer_details_stats_sql ==
    <<"SELECT",
      "COUNT(r.rental_id) as total_rentals, COALESCE(SUM(p.amount), 0) as total_spent, COUNT(CASE WHEN r.return_date IS NULL THEN 1 END) as outstanding_rentals",
      "FROM", "customer", "c",
      "LEFT", "JOIN", "rental", "r", "ON", "c.customer_id = r.customer_id",
      "LEFT", "JOIN", "payment", "p", "ON", "r.rental_id = p.rental_id",
      "WHERE", "c.customer_id", "=", "%s">>

\* without "if not results: return None": results[0] of an empty list
get_customer_details_NoNotFound(l, rs) ==
    CASE Len(rs) = 0 ->
            Query(get_customer_details_base
                    \o (IF Truthy(l.customer_id) THEN <<"AND", "c.customer_id", "=", "%s">>
                        ELSE Clause(Truthy(l.email), <<"AND", "c.email", "LIKE", "%s">>))
                    \o <<"LIMIT", "1">>,
                  IF Truthy(l.customer_id) THEN <<l.customer_id>>
                  ELSE Param(Truthy(l.email), Like(l.email)))
      [] Len(rs) = 1 ->
            IF rs[1] = <<>> THEN Throw(Exc("IndexError", <<"list index out of range">>))
            ELSE IF ~rs[1][1].wf THEN Throw(KeyError)
            ELSE Query(get_customer_details_stats_sql, <<rs[1][1].key>>)
      [] OTHER ->
            IF rs[2] = <<>>
            THEN Return(DictResult(<<<<"customer_id", rs[1][1].key>>>>, <<>>))
            ELSE IF ~rs[2][1].wf THEN Throw(KeyError)
            ELSE LET spent == FloatOrZero(rs[2][1].amt) IN
                 IF spent.exc.ty # "none" THEN Throw(spent.exc)
                 ELSE Return(DictResult(
                         <<<<"customer_id", rs[1][1].key>>,
                           <<"total_rentals", rs[2][1].cnt>>,
                           <<"total_spent", spent.val>>>>,
                         <<>>))

\* an if where the code has an elif: both filters when both are given
get_customer_details_BothFilters(l, rs) ==
    CASE Len(rs) = 0 ->
            Query(get_customer_details_base
                    \o Clause(Truthy(l.customer_id), <<"AND", "c.customer_id", "=", "%s">>)
                    \o Clause(Truthy(l.email), <<"AND", "c.email", "LIKE", "%s">>)
                    \o <<"LIMIT", "1">>,
                  Param(Truthy(l.customer_id), l.customer_id)
                    \o Param(Truthy(l.email), Like(l.email)))
      [] Len(rs) = 1 ->
            IF rs[1] = <<>> THEN Return(NoneResult)
            ELSE IF ~rs[1][1].wf THEN Throw(KeyError)
            ELSE Query(get_customer_details_stats_sql, <<rs[1][1].key>>)
      [] OTHER ->
            IF rs[2] = <<>>
            THEN Return(DictResult(<<<<"customer_id", rs[1][1].key>>>>, <<>>))
            ELSE IF ~rs[2][1].wf THEN Throw(KeyError)
            ELSE LET spent == FloatOrZero(rs[2][1].amt) IN
                 IF spent.exc.ty # "none" THEN Throw(spent.exc)
                 ELSE Return(DictResult(
                         <<<<"customer_id", rs[1][1].key>>,
                           <<"total_rentals", rs[2][1].cnt>>,
                           <<"total_spent", spent.val>>>>,
                         <<>>))

get_customer_details(l, rs) ==
    CASE Len(rs) = 0 ->
            Query(get_customer_details_base
                    \o (IF Truthy(l.customer_id) THEN <<"AND", "c.customer_id", "=", "%s">>
                        ELSE Clause(Truthy(l.email), <<"AND", "c.email", "LIKE", "%s">>))
                    \o <<"LIMIT", "1">>,
                  IF Truthy(l.customer_id) THEN <<l.customer_id>>
                  ELSE Param(Truthy(l.email), Like(l.email)))
      [] Len(rs) = 1 ->
            IF rs[1] = <<>> THEN Return(NoneResult)
            ELSE IF ~rs[1][1].wf THEN Throw(KeyError)
            ELSE Query(get_customer_details_stats_sql, <<rs[1][1].key>>)
      [] OTHER ->
            IF rs[2] = <<>>
            THEN Return(DictResult(<<<<"customer_id", rs[1][1].key>>>>, <<>>))
            ELSE IF ~rs[2][1].wf THEN Throw(KeyError)
            ELSE LET spent == FloatOrZero(rs[2][1].amt) IN
                 IF spent.exc.ty # "none" THEN Throw(spent.exc)
                 ELSE Return(DictResult(
                         <<<<"customer_id", rs[1][1].key>>,
                           <<"total_rentals", rs[2][1].cnt>>,
                           <<"total_spent", spent.val>>>>,
                         <<>>))

get_customer_rentals_validate(a) ==
    LET status == validate_rental_status(a.status)
        limit == validate_limit(a.limit, MAX_LIMIT) IN
    Validated(<<status.exc, limit.exc>>,
              [a EXCEPT !.status = status.val, !.limit = limit.val])

get_customer_rentals_sql ==
    <<"SELECT",
      "r.rental_id, f.title as film_title, r.rental_date, r.return_date, CASE WHEN r.return_date IS NULL THEN 'active' ELSE 'returned' END as status, CONCAT('Store ', i.store_id) as store",
      "FROM", "rental", "r",
      "JOIN", "inventory", "i", "ON", "r.inventory_id = i.inventory_id",
      "JOIN", "film", "f", "ON", "i.film_id = f.film_id",
      "WHERE", "r.customer_id", "=", "%s">>

get_customer_rentals(l, rs) ==
    CASE Len(rs) = 0 ->
            Query(<<"SELECT", "customer_id, CONCAT(first_name, ' ', last_name) as name",
                    "FROM", "customer", "WHERE", "customer_id", "=", "%s">>,
                  <<l.customer_id>>)
      [] Len(rs) = 1 ->
            IF rs[1] = <<>> THEN Return(NoneResult)
            ELSE Query(get_customer_rentals_sql
                         \o Clause(l.status.s = <<"a","c","t","i","v","e">>,
                                   <<"AND", "r.return_date", "IS", "NULL">>)
                         \o Clause(l.status.s = <<"r","e","t","u","r","n","e","d">>,
                                   <<"AND", "r.return_date", "IS", "NOT", "NULL">>)
                         \o <<"ORDER", "BY", "r.rental_date DESC", "LIMIT", "%s">>,
                       <<l.customer_id, l.limit>>)
      [] Len(rs) = 2 ->
            Query(<<"SELECT", "COUNT(*) as count", "FROM", "rental",
                    "WHERE", "customer_id", "=", "%s">>,
                  <<l.customer_id>>)
      [] OTHER ->
            IF ~rs[1][1].wf \/ (rs[3] # <<>> /\ ~rs[3][1].wf) THEN Throw(KeyError)
            ELSE Return(DictResult(
                    <<<<"customer_id", rs[1][1].key>>,
                      <<"total_count", IF rs[3] # <<>> THEN rs[3][1].cnt ELSE IntV(0)>>>>,
                    rs[2]))

get_overdue_rentals_validate(a) ==
    LET store_id == validate_store_id(a.store_id)
        limit == validate_limit(a.limit, 100) IN
    Validated(<<store_id.exc, limit.exc>>,
              [a EXCEPT !.store_id = store_id.val, !.limit = limit.val])

get_overdue_rentals_base ==
    <<"SELECT",
      "r.rental_id, CONCAT(c.first_name, ' ', c.last_name) as customer_name, c.email as customer_email, f.title as film_title, r.rental_date, DATEDIFF(CURDATE(), r.rental_date) - f.rental_duration as days_overdue, CONCAT('Store ', i.store_id) as store",
      "FROM", "rental", "r",
      "JOIN", "customer", "c", "ON", "r.customer_id = c.customer_id",
      "JOIN", "inventory", "i", "ON", "r.inventory_id = i.inventory_id",
      "JOIN", "film", "f", "ON", "i.film_id = f.film_id",
      "WHERE", "r.return_date", "IS", "NULL",
      "AND", "DATEDIFF(CURDATE(), r.rental_date)", ">", "f.rental_duration">>

\* without lines 569-571: days_overdue is never made a condition
get_overdue_rentals_NoDaysFilter(l, rs) ==
    IF Len(rs) = 0
    THEN IF ~IsNumber(l.days_overdue)
         THEN Throw(Exc("TypeError", <<"'>' not supported between instances">>))
         ELSE Query(get_overdue_rentals_base
                      \o Clause(Truthy(l.store_id), <<"AND", "i.store_id", "=", "%s">>)
                      \o Clause(FALSE,
                                <<"AND", "DATEDIFF(CURDATE(), r.rental_date) - f.rental_duration",
                                  ">=", "%s">>)
                      \o <<"ORDER", "BY", "days_overdue DESC", "LIMIT", "%s">>,
                    Param(Truthy(l.store_id), l.store_id)
                      \o Param(FALSE, l.days_overdue)
                      \o <<l.limit>>)
    ELSE Return(ListResult(rs[1]))

get_overdue_rentals(l, rs) ==
    IF Len(rs) = 0
    THEN IF ~IsNumber(l.days_overdue)
         THEN Throw(Exc("TypeError", <<"'>' not supported between instances">>))
         ELSE Query(get_overdue_rentals_base
                      \o Clause(Truthy(l.store_id), <<"AND", "i.store_id", "=", "%s">>)
                      \o Clause(l.days_overdue.n > 0,
                                <<"AND", "DATEDIFF(CURDATE(), r.rental_date) - f.rental_duration",
                                  ">=", "%s">>)
                      \o <<"ORDER", "BY", "days_overdue DESC", "LIMIT", "%s">>,
                    Param(Truthy(l.store_id), l.store_id)
                      \o Param(l.days_overdue.n > 0, l.days_overdue)
                      \o <<l.limit>>)
    ELSE Return(ListResult(rs[1]))

----------------------------------------------------------------------------
(* Basic analysis, server.py lines 584-775 *)

LAST_MONTH == <<"l","a","s","t","_","m","o","n","t","h">>
LAST_WEEK == <<"l","a","s","t","_","w","e","e","k">>

\* the rental-date window of get_popular_films and get_top_customers
PeriodClause(period) ==
    Clause(period.s = LAST_MONTH,
           <<"AND", "r.rental_date", ">=", "DATE_SUB(CURDATE(), INTERVAL 1 MONTH)">>)
    \o Clause(period.s = LAST_WEEK,
              <<"AND", "r.rental_date", ">=", "DATE_SUB(CURDATE(), INTERVAL 1 WEEK)">>)

\* {..., "total_revenue": float(r[...]) if r[...] else 0.0} with a rank
RankedMoney(r, i) ==
    IF ~r.wf THEN [exc |-> KeyError, val |-> r]
    ELSE LET f == FloatOrZero(r.amt) IN
         [exc |-> f.exc, val |-> [r EXCEPT !.amt = f.val, !.rank = i]]

\* the same without a rank
Money(r, i) ==
    IF ~r.wf THEN [exc |-> KeyError, val |-> r]
    ELSE LET f == FloatOrZero(r.amt) IN
         [exc |-> f.exc, val |-> [r EXCEPT !.amt = f.val]]

get_popular_films_validate(a) ==
    LET period == validate_period(a.period)
        store_id == validate_store_id(a.store_id)
        limit == validate_limit(a.limit, MAX_LIMIT) IN
    Validated(<<period.exc, store_id.exc, limit.exc>>,
              [a EXCEPT !.period = period.val, !.store_id = store_id.val,
                        !.limit = limit.val])

get_popular_films_base ==
    <<"SELECT",
      "f.title, c.name as category, COUNT(r.rental_id) as rental_count, COALESCE(SUM(p.amount), 0) as total_revenue",
      "FROM", "film", "f",
      "JOIN", "film_category", "fc", "ON", "f.film_id = fc.film_id",
      "JOIN", "category", "c", "ON", "fc.category_id = c.category_id",
      "JOIN", "inventory", "i", "ON", "f.film_id = i.film_id",
      "JOIN", "rental", "r", "ON", "i.inventory_id = r.inventory_id",
      "LEFT", "JOIN", "payment", "p", "ON", "r.rental_id = p.rental_id",
      "WHERE", "1=1">>

\* the store bound before the category, against the order of the clauses
get_popular_films_ParamsSwapped(l, rs) ==
    IF Len(rs) = 0
    THEN Query(get_popular_films_base
                 \o PeriodClause(l.period)
                 \o Clause(Truthy(l.category), <<"AND", "c.name", "=", "%s">>)
                 \o Clause(Truthy(l.store_id), <<"AND", "i.store_id", "=", "%s">>)
                 \o <<"GROUP", "BY", "f.film_id, f.title, c.name",
                      "ORDER", "BY", "rental_count DESC", "LIMIT", "%s">>,
               Param(Truthy(l.store_id), l.store_id)
                 \o Param(Truthy(l.category), l.category)
                 \o <<l.limit>>)
    ELSE LET out == Comprehension(rs[1], RankedMoney) IN
         IF out.exc.ty # "none" THEN Throw(out.exc) ELSE Return(ListResult(out.val))

get_popular_films(l, rs) ==
    IF Len(rs) = 0
    THEN Query(get_popular_films_base
                 \o PeriodClause(l.period)
                 \o Clause(Truthy(l.category), <<"AND", "c.name", "=", "%s">>)
                 \o Clause(Truthy(l.store_id), <<"AND", "i.store_id", "=", "%s">>)
                 \o <<"GROUP", "BY", "f.film_id, f.title, c.name",
                      "ORDER", "BY", "rental_count DESC", "LIMIT", "%s">>,
               Param(Truthy(l.category), l.category)
                 \o Param(Truthy(l.store_id), l.store_id)
                 \o <<l.limit>>)
    ELSE LET out == Comprehension(rs[1], RankedMoney) IN
         IF out.exc.ty # "none" THEN Throw(out.exc) ELSE Return(ListResult(out.val))

get_revenue_summary_validate(a) ==
    LET group_by == validate_group_by(a.group_by)
        store_id == validate_store_id(a.store_id) IN
    Validated(<<group_by.exc, store_id.exc>>,
              [a EXCEPT !.group_by = group_by.val, !.store_id = store_id.val])

\* the four statements of get_revenue_summary up to their optional WHERE
get_revenue_summary_select(group_by) ==
    CASE group_by = <<"s","t","o","r","e">> ->
            <<"SELECT",
              "CONCAT('Store ', s.store_id) as store, SUM(p.amount) as total_revenue, COUNT(DISTINCT r.rental_id) as rental_count",
              "FROM", "payment", "p",
              "JOIN", "rental", "r", "ON", "p.rental_id = r.rental_id",
              "JOIN", "inventory", "i", "ON", "r.inventory_id = i.inventory_id",
              "JOIN", "store", "s", "ON", "i.store_id = s.store_id">>
      [] group_by = <<"c","a","t","e","g","o","r","y">> ->
            <<"SELECT",
              "c.name as category, SUM(p.amount) as total_revenue, COUNT(DISTINCT r.rental_id) as rental_count",
              "FROM", "payment", "p",
              "JOIN", "rental", "r", "ON", "p.rental_id = r.rental_id",
              "JOIN", "inventory", "i", "ON", "r.inventory_id = i.inventory_id",
              "JOIN", "film", "f", "ON", "i.film_id = f.film_id",
              "JOIN", "film_category", "fc", "ON", "f.film_id = fc.film_id",
              "JOIN", "category", "c", "ON", "fc.category_id = c.category_id">>
      [] group_by = <<"m","o","n","t","h">> ->
            <<"SELECT", "DATE_FORMAT(p.payment_date,", "'%Y-%m')", "as", "month,",
              "SUM(p.amount) as total_revenue, COUNT(DISTINCT r.rental_id) as rental_count",
              "FROM", "payment", "p",
              "JOIN", "rental", "r", "ON", "p.rental_id = r.rental_id",
              "JOIN", "inventory", "i", "ON", "r.inventory_id = i.inventory_id">>
      [] OTHER ->
            <<"SELECT",
              "CONCAT(st.first_name, ' ', st.last_name) as staff, SUM(p.amount) as total_revenue, COUNT(DISTINCT r.rental_id) as rental_count",
              "FROM", "payment", "p",
              "JOIN", "staff", "st", "ON", "p.staff_id = st.staff_id",
              "JOIN", "rental", "r", "ON", "p.rental_id = r.rental_id",
              "JOIN", "inventory", "i", "ON", "r.inventory_id = i.inventory_id">>

get_revenue_summary_where(group_by) ==
    IF group_by = <<"s","t","o","r","e">>
    THEN <<"WHERE", "s.store_id", "=", "%s">>
    ELSE <<"WHERE", "i.store_id", "=", "%s">>

get_revenue_summary_group(group_by) ==
    CASE group_by = <<"s","t","o","r","e">> ->
            <<"GROUP", "BY", "s.store_id", "ORDER", "BY", "s.store_id">>
      [] group_by = <<"c","a","t","e","g","o","r","y">> ->
            <<"GROUP", "BY", "c.category_id, c.name", "ORDER", "BY", "total_revenue DESC">>
      [] group_by = <<"m","o","n","t","h">> ->
            <<"GROUP", "BY", "DATE_FORMAT(p.payment_date,", "'%Y-%m')",
              "ORDER", "BY", "month">>
      [] OTHER ->
            <<"GROUP", "BY", "st.staff_id", "ORDER", "BY", "total_revenue DESC">>

\* {k: (float(v) if k == "total_revenue" else v) for k, v in r.items()}
RevenueRow(r, i) ==
    IF ~r.wf THEN Ok(r)
    ELSE LET f == FloatOf(r.amt) IN [exc |-> f.exc, val |-> [r EXCEPT !.amt = f.val]]

get_revenue_summary(l, rs) ==
    IF Len(rs) = 0
    THEN Query(get_revenue_summary_select(l.group_by.s)
                 \o Clause(Truthy(l.store_id), get_revenue_summary_where(l.group_by.s))
                 \o get_revenue_summary_group(l.group_by.s),
               Param(Truthy(l.store_id), l.store_id))
    ELSE LET summary == Comprehension(rs[1], RevenueRow) IN
         IF summary.exc.ty # "none" THEN Throw(summary.exc)
         ELSE LET grand_total == SumAmt(summary.val) IN
              IF grand_total.exc.ty # "none" THEN Throw(grand_total.exc)
              ELSE Return(DictResult(<<<<"grand_total", grand_total.val>>>>, summary.val))

get_store_stats_validate(a) ==
    LET store_id == validate_store_id(a.store_id) IN
    Validated(<<store_id.exc>>, [a EXCEPT !.store_id = store_id.val])

get_store_stats_base ==
    <<"SELECT",
      "s.store_id, CONCAT(st.first_name, ' ', st.last_name) as manager, CONCAT(a.address, ', ', ci.city, ', ', co.country) as address,",
      "(", "SELECT", "COUNT(*)", "FROM", "customer", "c", "WHERE", "c.store_id = s.store_id", ")",
      "as", "total_customers,",
      "(", "SELECT", "COUNT(*)", "FROM", "customer", "c", "WHERE",
      "c.store_id = s.store_id AND c.active = 1", ")", "as", "active_customers,",
      "(", "SELECT", "COUNT(*)", "FROM", "inventory", "i", "WHERE", "i.store_id = s.store_id", ")",
      "as", "total_inventory,",
      "(", "SELECT", "COUNT(*)", "FROM", "rental", "r", "JOIN", "inventory", "i", "ON",
      "r.inventory_id = i.inventory_id", "WHERE", "i.store_id = s.store_id", ")",
      "as", "total_rentals,",
      "(", "SELECT", "COALESCE(SUM(p.amount), 0)", "FROM", "payment", "p", "JOIN", "staff", "st2",
      "ON", "p.staff_id = st2.staff_id", "WHERE", "st2.store_id = s.store_id", ")",
      "as", "total_revenue",
      "FROM", "store", "s",
      "JOIN", "staff", "st", "ON", "s.manager_staff_id = st.staff_id",
      "JOIN", "address", "a", "ON", "s.address_id = a.address_id",
      "JOIN", "city", "ci", "ON", "a.city_id = ci.city_id",
      "JOIN", "country", "co", "ON", "ci.country_id = co.country_id">>

get_store_stats(l, rs) ==
    IF Len(rs) = 0
    THEN Query(get_store_stats_base
                 \o Clause(Truthy(l.store_id), <<"WHERE", "s.store_id", "=", "%s">>)
                 \o <<"ORDER", "BY", "s.store_id">>,
               Param(Truthy(l.store_id), l.store_id))
    ELSE LET out == Comprehension(rs[1], Money) IN
         IF out.exc.ty # "none" THEN Throw(out.exc) ELSE Return(ListResult(out.val))

----------------------------------------------------------------------------
(* Customer analysis, server.py lines 783-948 *)

get_top_customers_validate(a) ==
    LET metric == validate_metric(a.metric)
        period == validate_period(a.period)
        limit == validate_limit(a.limit, MAX_LIMIT) IN
    Validated(<<metric.exc, period.exc, limit.exc>>,
              [a EXCEPT !.metric = metric.val, !.period = period.val,
                        !.limit = limit.val])

get_top_customers_base ==
    <<"SELECT",
      "c.customer_id, CONCAT(c.first_name, ' ', c.last_name) as name, c.email, CONCAT('Store ', c.store_id) as store, COUNT(DISTINCT r.rental_id) as rental_count, COALESCE(SUM(p.amount), 0) as total_spent",
      "FROM", "customer", "c",
      "LEFT", "JOIN", "rental", "r", "ON", "c.customer_id = r.customer_id",
      "LEFT", "JOIN", "payment", "p", "ON", "r.rental_id = p.rental_id",
      "WHERE", "1=1">>

get_top_customers(l, rs) ==
    IF Len(rs) = 0
    THEN LET order_by == IF l.metric.s = <<"s","p","e","n","d","i","n","g">>
                         THEN "total_spent" ELSE "rental_count" IN
         Query(get_top_customers_base
                 \o PeriodClause(l.period)
                 \o <<"GROUP", "BY", "c.customer_id", "ORDER", "BY", order_by, "DESC",
                      "LIMIT", "%s">>,
               <<l.limit>>)
    ELSE LET out == Comprehension(rs[1], RankedMoney) IN
         IF out.exc.ty # "none" THEN Throw(out.exc) ELSE Return(ListResult(out.val))

get_customer_segments_sql ==
    <<"SELECT",
      "c.customer_id, COUNT(r.rental_id) as rental_count, COALESCE(SUM(p.amount), 0) as total_spent",
      "FROM", "customer", "c",
      "LEFT", "JOIN", "rental", "r", "ON", "c.customer_id = r.customer_id",
      "LEFT", "JOIN", "payment", "p", "ON", "r.rental_id = p.rental_id",
      "WHERE", "c.active", "=", "1", "GROUP", "BY", "c.customer_id">>

\* the tests are made in the order regular, vip, occasional
Segment_RegularFirst(rental_count, total_spent) ==
    IF rental_count >= 10 \/ total_spent >= 50 THEN "regular"
    ELSE IF rental_count >= 20 /\ total_spent >= 100 THEN "vip"
    ELSE IF rental_count >= 1 THEN "occasional"
    ELSE "inactive"

\* the if / elif chain of lines 864-871 for one customer
Segment(rental_count, total_spent) ==
    IF rental_count >= 20 /\ total_spent >= 100 THEN "vip"
    ELSE IF rental_count >= 10 \/ total_spent >= 50 THEN "regular"
    ELSE IF rental_count >= 1 THEN "occasional"
    ELSE "inactive"

\* the chain has no else: a customer matching no test is counted nowhere
Classified_NoElse(r, i) ==
    IF ~r.wf THEN [exc |-> KeyError, val |-> r]
    ELSE LET rental_count == IF Truthy(r.cnt) THEN r.cnt ELSE IntV(0)
             total_spent == FloatOrZero(r.amt) IN
         IF total_spent.exc.ty # "none" THEN [exc |-> total_spent.exc, val |-> r]
         ELSE IF ~IsNumber(rental_count)
              THEN [exc |-> Exc("TypeError", <<"'>=' not supported between instances">>),
                    val |-> r]
              ELSE Ok([r EXCEPT !.key =
                         StrV(<<IF Segment(rental_count.n, total_spent.val.n) = "inactive"
                                THEN "none"
                                ELSE Segment(rental_count.n, total_spent.val.n)>>)])

\* lines 861-871 for one row: the row with its segment in key
Classified(r, i) ==
    IF ~r.wf THEN [exc |-> KeyError, val |-> r]
    ELSE LET rental_count == IF Truthy(r.cnt) THEN r.cnt ELSE IntV(0)
             total_spent == FloatOrZero(r.amt) IN
         IF total_spent.exc.ty # "none" THEN [exc |-> total_spent.exc, val |-> r]
         ELSE IF ~IsNumber(rental_count)
              THEN [exc |-> Exc("TypeError", <<"'>=' not supported between instances">>),
                    val |-> r]
              ELSE Ok([r EXCEPT !.key = StrV(<<Segment(rental_count.n, total_spent.val.n)>>)])

SegmentNames == <<"vip", "regular", "occasional", "inactive">>

CountOf(rows, segment) ==
    Cardinality({i \in 1..Len(rows) : rows[i].key = StrV(<<segment>>)})

\* round(count / total * 100, 1) if total > 0 else 0, in tenths of a percent:
\* to the nearest tenth, a tie to the even one
Percentage(count, total) ==
    IF total > 0
    THEN LET scaled == count * 1000
             q == scaled \div total
             twice == 2 * (scaled % total) IN
         IF twice > total \/ (twice = total /\ q % 2 = 1) THEN q + 1 ELSE q
    ELSE 0

Tenths(k) == [t |-> "float", s |-> <<"tenths">>, n |-> k]

get_customer_segments(l, rs) ==
    IF Len(rs) = 0 THEN Query(get_customer_segments_sql, <<>>)
    ELSE LET done == Comprehension(rs[1], Classified) IN
         IF done.exc.ty # "none" THEN Throw(done.exc)
         ELSE LET total_customers ==
                      CountOf(done.val, "vip") + CountOf(done.val, "regular")
                        + CountOf(done.val, "occasional") + CountOf(done.val, "inactive") IN
              Return(DictResult(
                  <<<<"total_customers", IntV(total_customers)>>>>,
                  [i \in 1..4 |->
                      [key |-> StrV(<<SegmentNames[i]>>),
                       cnt |-> IntV(CountOf(done.val, SegmentNames[i])),
                       amt |-> None,
                       rate |-> IF total_customers > 0
                                THEN Tenths(Percentage(CountOf(done.val, SegmentNames[i]),
                                                       total_customers))
                                ELSE IntV(0),
                       wf |-> TRUE, rank |-> 0]]))

get_customer_activity_validate(a) ==
    LET period == validate_period(a.period) IN
    Validated(<<period.exc>>, [a EXCEPT !.period = period.val])

Interval(period) ==
    IF period.s = LAST_WEEK THEN <<"1", "WEEK">>
    ELSE IF period.s = LAST_MONTH THEN <<"1", "MONTH">>
    ELSE <<"1", "YEAR">>

get_customer_activity_active_sql(period) ==
    <<"SELECT", "COUNT(DISTINCT r.customer_id) as count", "FROM", "rental", "r",
      "WHERE", "r.rental_date", ">=", "DATE_SUB(CURDATE(),", "INTERVAL">>
      \o Interval(period) \o <<")">>
get_customer_activity_new_sql(period) ==
    <<"SELECT", "COUNT(*) as count", "FROM", "customer",
      "WHERE", "create_date", ">=", "DATE_SUB(CURDATE(),", "INTERVAL">>
      \o Interval(period) \o <<")">>
get_customer_activity_dormant_sql(period) ==
    <<"SELECT", "COUNT(*) as count", "FROM", "customer", "c",
      "WHERE", "c.active", "=", "1", "AND", "c.customer_id", "NOT", "IN",
      "(", "SELECT", "DISTINCT", "r.customer_id", "FROM", "rental", "r",
      "WHERE", "r.rental_date", ">=", "DATE_SUB(CURDATE(),", "INTERVAL">>
      \o Interval(period) \o <<")", ")">>

\* x_result[0]["count"] if x_result else 0
CountColumn(rows) ==
    IF rows = <<>> THEN Ok(IntV(0))
    ELSE IF ~rows[1].wf THEN [exc |-> KeyError, val |-> None]
    ELSE Ok(rows[1].cnt)

\* calc_pct without its "if total_count > 0" guard
calc_pct_NoZeroGuard(count, total_count) ==
    IF ~IsNumber(total_count) \/ ~IsNumber(count)
    THEN Raise("TypeError", <<"unsupported operand type(s) for /">>)
    ELSE IF total_count.n = 0
         THEN Raise("ZeroDivisionError", <<"division by zero">>)
         ELSE Ok(Tenths(Percentage(count.n, total_count.n)))

\* calc_pct, lines 937-938
calc_pct(count, total_count) ==
    IF ~IsNumber(total_count)
    THEN Raise("TypeError", <<"'>' not supported between instances">>)
    ELSE IF total_count.n > 0
         THEN IF ~IsNumber(count)
              THEN Raise("TypeError", <<"unsupported operand type(s) for /">>)
              ELSE Ok(Tenths(Percentage(count.n, total_count.n)))
         ELSE Ok(IntV(0))

get_customer_activity(l, rs) ==
    CASE Len(rs) = 0 -> Query(get_customer_activity_active_sql(l.period), <<>>)
      [] Len(rs) = 1 ->
            IF CountColumn(rs[1]).exc.ty # "none" THEN Throw(KeyError)
            ELSE Query(get_customer_activity_new_sql(l.period), <<>>)
      [] Len(rs) = 2 ->
            IF CountColumn(rs[2]).exc.ty # "none" THEN Throw(KeyError)
            ELSE Query(get_customer_activity_dormant_sql(l.period), <<>>)
      [] Len(rs) = 3 ->
            IF CountColumn(rs[3]).exc.ty # "none" THEN Throw(KeyError)
            ELSE Query(<<"SELECT", "COUNT(*) as count", "FROM", "customer",
                         "WHERE", "active", "=", "1">>, <<>>)
      [] OTHER ->
            LET total_count == CountColumn(rs[4])
                active == calc_pct(CountColumn(rs[1]).val, total_count.val)
                new == calc_pct(CountColumn(rs[2]).val, total_count.val)
                dormant == calc_pct(CountColumn(rs[3]).val, total_count.val)
                exc == FirstExc(<<total_count.exc, active.exc, new.exc, dormant.exc>>) IN
            IF exc.ty # "none" THEN Throw(exc)
            ELSE Return(DictResult(
                    <<<<"period", l.period>>,
                      <<"active.count", CountColumn(rs[1]).val>>,
                      <<"active.percentage", active.val>>,
                      <<"new.count", CountColumn(rs[2]).val>>,
                      <<"new.percentage", new.val>>,
                      <<"dormant.count", CountColumn(rs[3]).val>>,
                      <<"dormant.percentage", dormant.val>>,
                      <<"total_active_customers", total_count.val>>>>,
                    <<>>))

----------------------------------------------------------------------------
(* Inventory and product analysis, server.py lines 956-1094 *)

\* rows whose rate column is converted with float(...) if ... else 0.0
Rate(r, i) ==
    IF ~r.wf THEN [exc |-> KeyError, val |-> r]
    ELSE LET f == FloatOrZero(r.rate) IN
         [exc |-> f.exc, val |-> [r EXCEPT !.rate = f.val]]

\* rows with both decimal columns converted, total_revenue first
MoneyAndRate(r, i) ==
    IF ~r.wf THEN [exc |-> KeyError, val |-> r]
    ELSE LET f == FloatOrZero(r.amt)
             g == FloatOrZero(r.rate) IN
         [exc |-> FirstExc(<<f.exc, g.exc>>),
          val |-> [r EXCEPT !.amt = f.val, !.rate = g.val]]

get_inventory_turnover_validate(a) ==
    LET store_id == validate_store_id(a.store_id) IN
    Validated(<<store_id.exc>>, [a EXCEPT !.store_id = store_id.val])

get_inventory_turnover_base ==
    <<"SELECT",
      "f.title, c.name as category, COUNT(DISTINCT i.inventory_id) as inventory_count, COUNT(r.rental_id) as rental_count, ROUND(COUNT(r.rental_id) / COUNT(DISTINCT i.inventory_id), 2) as turnover_rate",
      "FROM", "film", "f",
      "JOIN", "film_category", "fc", "ON", "f.film_id = fc.film_id",
      "JOIN", "category", "c", "ON", "fc.category_id = c.category_id",
      "JOIN", "inventory", "i", "ON", "f.film_id = i.film_id",
      "LEFT", "JOIN", "rental", "r", "ON", "i.inventory_id = r.inventory_id",
      "WHERE", "1=1">>

get_inventory_turnover(l, rs) ==
    IF Len(rs) = 0
    THEN Query(get_inventory_turnover_base
                 \o Clause(Truthy(l.store_id), <<"AND", "i.store_id", "=", "%s">>)
                 \o Clause(Truthy(l.category), <<"AND", "c.name", "=", "%s">>)
                 \o <<"GROUP", "BY", "f.film_id, f.title, c.name",
                      "ORDER", "BY", "turnover_rate DESC", "LIMIT", "50">>,
               Param(Truthy(l.store_id), l.store_id)
                 \o Param(Truthy(l.category), l.category))
    ELSE LET out == Comprehension(rs[1], Rate) IN
         IF out.exc.ty # "none" THEN Throw(out.exc) ELSE Return(ListResult(out.val))

get_category_performance_validate(a) ==
    LET period == validate_period(a.period)
        store_id == validate_store_id(a.store_id) IN
    Validated(<<period.exc, store_id.exc>>,
              [a EXCEPT !.period = period.val, !.store_id = store_id.val])

get_category_performance_base ==
    <<"SELECT",
      "c.name as category, COUNT(DISTINCT f.film_id) as film_count, COUNT(r.rental_id) as rental_count, COALESCE(SUM(p.amount), 0) as total_revenue, ROUND(COUNT(r.rental_id) / COUNT(DISTINCT f.film_id), 2) as avg_rentals_per_film",
      "FROM", "category", "c",
      "JOIN", "film_category", "fc", "ON", "c.category_id = fc.category_id",
      "JOIN", "film", "f", "ON", "fc.film_id = f.film_id",
      "JOIN", "inventory", "i", "ON", "f.film_id = i.film_id",
      "LEFT", "JOIN", "rental", "r", "ON", "i.inventory_id = r.inventory_id",
      "LEFT", "JOIN", "payment", "p", "ON", "r.rental_id = p.rental_id",
      "WHERE", "1=1">>

get_category_performance(l, rs) ==
    IF Len(rs) = 0
    THEN Query(get_category_performance_base
                 \o Clause(l.period.s = LAST_MONTH,
                           <<"AND", "(", "r.rental_date", ">=",
                             "DATE_SUB(CURDATE(), INTERVAL 1 MONTH)", "OR",
                             "r.rental_date", "IS", "NULL", ")">>)
                 \o Clause(l.period.s = LAST_WEEK,
                           <<"AND", "(", "r.rental_date", ">=",
                             "DATE_SUB(CURDATE(), INTERVAL 1 WEEK)", "OR",
                             "r.rental_date", "IS", "NULL", ")">>)
                 \o Clause(Truthy(l.store_id), <<"AND", "i.store_id", "=", "%s">>)
                 \o <<"GROUP", "BY", "c.category_id, c.name",
                      "ORDER", "BY", "total_revenue DESC">>,
               Param(Truthy(l.store_id), l.store_id))
    ELSE LET out == Comprehension(rs[1], MoneyAndRate) IN
         IF out.exc.ty # "none" THEN Throw(out.exc) ELSE Return(ListResult(out.val))

get_underperforming_films_validate(a) ==
    LET store_id == validate_store_id(a.store_id) IN
    Validated(<<store_id.exc>>, [a EXCEPT !.store_id = store_id.val])

get_underperforming_films_base ==
    <<"SELECT",
      "f.title, c.name as category, f.rental_rate, MAX(r.rental_date) as last_rental_date, DATEDIFF(CURDATE(), MAX(r.rental_date)) as days_since_last_rental, COUNT(DISTINCT i.inventory_id) as inventory_count",
      "FROM", "film", "f",
      "JOIN", "film_category", "fc", "ON", "f.film_id = fc.film_id",
      "JOIN", "category", "c", "ON", "fc.category_id = c.category_id",
      "JOIN", "inventory", "i", "ON", "f.film_id = i.film_id",
      "LEFT", "JOIN", "rental", "r", "ON", "i.inventory_id = r.inventory_id",
      "WHERE", "1=1">>

get_underperforming_films(l, rs) ==
    IF Len(rs) = 0
    THEN IF ~IsNumber(l.days_not_rented)
         THEN Throw(Exc("TypeError", <<"'<' not supported between instances">>))
         ELSE Query(get_underperforming_films_base
                      \o Clause(Truthy(l.store_id), <<"AND", "i.store_id", "=", "%s">>)
                      \o <<"GROUP", "BY", "f.film_id, f.title, c.name, f.rental_rate",
                           "HAVING", "MAX(r.rental_date)", "IS", "NULL",
                           "OR", "DATEDIFF(CURDATE(), MAX(r.rental_date))", ">=", "%s",
                           "ORDER", "BY", "days_since_last_rental DESC", "LIMIT", "50">>,
                    Param(Truthy(l.store_id), l.store_id)
                      \o <<IntV(Max(1, Min(365, l.days_not_rented.n)))>>)
    ELSE LET out == Comprehension(rs[1], Rate) IN
         IF out.exc.ty # "none" THEN Throw(out.exc) ELSE Return(ListResult(out.val))

----------------------------------------------------------------------------
(* call_tool, server.py lines 1358-1472 *)

INPUT_ERROR == "input error (nyuryoku era-): "
GENERIC_FAILURE == "an error occurred during processing; check your input (shori-chu ni era- ga hassei shimashita. nyuryoku naiyo wo kakunin shite kudasai.)"
UNKNOWN_TOOL == "error: unknown tool (era-: michi no tsu-ru desu): "
NO_DATA == "no matching data was found (gaito suru de-ta ga mitsukarimasen deshita.)"

\* the names the if / elif chain of call_tool compares with
ToolNames ==
    {"search_films", "get_film_details", "list_categories", "check_film_availability",
     "get_actor_filmography", "search_customers", "get_customer_details",
     "get_customer_rentals", "get_overdue_rentals", "get_popular_films",
     "get_revenue_summary", "get_store_stats", "get_top_customers",
     "get_customer_segments", "get_customer_activity", "get_inventory_turnover",
     "get_category_performance", "get_underperforming_films"}

\* arguments.get(key, default)
Get(args, key, default) == IF args[key].t = "absent" THEN default ELSE args[key]

\* the keyword arguments call_tool passes to the handler of n
call_args(n, args) ==
    CASE n = "search_films" ->
            [NoArgs EXCEPT !.title = Get(args, "title", None),
                           !.category = Get(args, "category", None),
                           !.rating = Get(args, "rating", None),
                           !.actor_name = Get(args, "actor_name", None),
                           !.release_year = Get(args, "release_year", None),
                           !.limit = Get(args, "limit", IntV(DEFAULT_LIMIT))]
      [] n = "get_film_details" ->
            [NoArgs EXCEPT !.title = Get(args, "title", StrV(<<>>))]
      [] n = "check_film_availability" ->
            [NoArgs EXCEPT !.title = Get(args, "title", StrV(<<>>)),
                           !.store_id = Get(args, "store_id", None)]
      [] n = "get_actor_filmography" ->
            [NoArgs EXCEPT !.actor_name = Get(args, "actor_name", StrV(<<>>))]
      [] n = "search_customers" ->
            [NoArgs EXCEPT !.name = Get(args, "name", None),
                           !.email = Get(args, "email", None),
                           !.store_id = Get(args, "store_id", None),
                           !.active_only = Get(args, "active_only", BoolV(TRUE)),
                           !.limit = Get(args, "limit", IntV(DEFAULT_LIMIT))]
      [] n = "get_customer_details" ->
            [NoArgs EXCEPT !.customer_id = Get(args, "customer_id", None),
                           !.email = Get(args, "email", None)]
      [] n = "get_customer_rentals" ->
            [NoArgs EXCEPT !.customer_id = Get(args, "customer_id", None),
                           !.status = Get(args, "status", StrV(<<"a","l","l">>)),
                           !.limit = Get(args, "limit", IntV(DEFAULT_LIMIT))]
      [] n = "get_overdue_rentals" ->
            [NoArgs EXCEPT !.store_id = Get(args, "store_id", None),
                           !.days_overdue = Get(args, "days_overdue", IntV(0)),
                           !.limit = Get(args, "limit", IntV(20))]
      [] n = "get_popular_films" ->
            [NoArgs EXCEPT !.period = Get(args, "period", StrV(<<"a","l","l","_","t","i","m","e">>)),
                           !.category = Get(args, "category", None),
                           !.store_id = Get(args, "store_id", None),
                           !.limit = Get(args, "limit", IntV(DEFAULT_LIMIT))]
      [] n = "get_revenue_summary" ->
            [NoArgs EXCEPT !.group_by = Get(args, "group_by", StrV(<<"s","t","o","r","e">>)),
                           !.store_id = Get(args, "store_id", None)]
      [] n = "get_store_stats" ->
            [NoArgs EXCEPT !.store_id = Get(args, "store_id", None)]
      [] n = "get_top_customers" ->
            [NoArgs EXCEPT !.metric = Get(args, "metric", StrV(<<"s","p","e","n","d","i","n","g">>)),
                           !.period = Get(args, "period", StrV(<<"a","l","l","_","t","i","m","e">>)),
                           !.limit = Get(args, "limit", IntV(DEFAULT_LIMIT))]
      [] n = "get_customer_activity" ->
            [NoArgs EXCEPT !.period = Get(args, "period", StrV(LAST_MONTH))]
      [] n = "get_inventory_turnover" ->
            [NoArgs EXCEPT !.store_id = Get(args, "store_id", None),
                           !.category = Get(args, "category", None)]
      [] n = "get_category_performance" ->
            [NoArgs EXCEPT !.period = Get(args, "period", StrV(<<"a","l","l","_","t","i","m","e">>)),
                           !.store_id = Get(args, "store_id", None)]
      [] n = "get_underperforming_films" ->
            [NoArgs EXCEPT !.days_not_rented = Get(args, "days_not_rented", IntV(30)),
                           !.store_id = Get(args, "store_id", None)]
      [] OTHER -> NoArgs

\* the statements of the handler of n that come before its first query and
\* check its arguments
Validate(n, a) ==
    CASE n = "search_films" -> search_films_validate(a)
      [] n = "get_film_details" -> get_film_details_validate(a)
      [] n = "check_film_availability" -> check_film_availability_validate(a)
      [] n = "get_actor_filmography" -> get_actor_filmography_validate(a)
      [] n = "search_customers" -> search_customers_validate(a)
      [] n = "get_customer_details" -> get_customer_details_validate(a)
      [] n = "get_customer_rentals" -> get_customer_rentals_validate(a)
      [] n = "get_overdue_rentals" -> get_overdue_rentals_validate(a)
      [] n = "get_popular_films" -> get_popular_films_validate(a)
      [] n = "get_revenue_summary" -> get_revenue_summary_validate(a)
      [] n = "get_store_stats" -> get_store_stats_validate(a)
      [] n = "get_top_customers" -> get_top_customers_validate(a)
      [] n = "get_customer_activity" -> get_customer_activity_validate(a)
      [] n = "get_inventory_turnover" -> get_inventory_turnover_validate(a)
      [] n = "get_category_performance" -> get_category_performance_validate(a)
      [] n = "get_underperforming_films" -> get_underperforming_films_validate(a)
      [] OTHER -> Validated(<<>>, a)

\* the handler of n from its last await (rs: the result sets fetched so far)
\* to its next await, its return or its raise
Handler(n, l, rs) ==
    CASE n = "search_films" -> search_films(l, rs)
      [] n = "get_film_details" -> get_film_details(l, rs)
      [] n = "list_categories" -> list_categories(l, rs)
      [] n = "check_film_availability" -> check_film_availability(l, rs)
      [] n = "get_actor_filmography" -> get_actor_filmography(l, rs)
      [] n = "search_customers" -> search_customers(l, rs)
      [] n = "get_customer_details" -> get_customer_details(l, rs)
      [] n = "get_customer_rentals" -> get_customer_rentals(l, rs)
      [] n = "get_overdue_rentals" -> get_overdue_rentals(l, rs)
      [] n = "get_popular_films" -> get_popular_films(l, rs)
      [] n = "get_revenue_summary" -> get_revenue_summary(l, rs)
      [] n = "get_store_stats" -> get_store_stats(l, rs)
      [] n = "get_top_customers" -> get_top_customers(l, rs)
      [] n = "get_customer_segments" -> get_customer_segments(l, rs)
      [] n = "get_customer_activity" -> get_customer_activity(l, rs)
      [] n = "get_inventory_turnover" -> get_inventory_turnover(l, rs)
      [] n = "get_category_performance" -> get_category_performance(l, rs)
      [] OTHER -> get_underperforming_films(l, rs)

TextContent(text) == [type |-> "text", text |-> text]

\* json.dumps(value, ensure_ascii=False, default=str) of one value: a Decimal
\* is not JSON serializable and goes through default=str
JsonValue(v) ==
    CASE v.t = "str" -> <<"\"">> \o v.s \o <<"\"">>
      [] v.t \in {"null", "absent"} -> <<"null">>
      [] v.t = "bool" -> IF v.n = 1 THEN <<"true">> ELSE <<"false">>
      [] v.t = "decimal" -> <<"\"">> \o PyStr(v) \o <<"\"">>
      [] v.t = "float" ->
            IF v.s = <<"tenths">>
            THEN PyStr(IntV(v.n \div 10)) \o <<".">> \o PyStr(IntV(v.n % 10))
            ELSE PyStr(v) \o <<".0">>
      [] v.t = "list" -> <<"[", "1", "]">>
      [] OTHER -> PyStr(v)

JsonRow(r) ==
    <<"{">> \o (IF r.rank > 0 THEN <<"rank:">> \o PyStr(IntV(r.rank)) \o <<",">> ELSE <<>>)
      \o <<"key:">> \o JsonValue(r.key)
      \o (IF r.wf
          THEN <<",", "cnt:">> \o JsonValue(r.cnt) \o <<",", "amt:">> \o JsonValue(r.amt)
                 \o <<",", "rate:">> \o JsonValue(r.rate)
          ELSE <<>>)
      \o <<"}">>

json_dumps(result) ==
    LET rows == Join([i \in 1..Len(result.rows) |-> JsonRow(result.rows[i])], <<",">>)
        fields == Join([i \in 1..Len(result.fields) |->
                          <<result.fields[i][1], ":">> \o JsonValue(result.fields[i][2])],
                       <<",">>) IN
    IF result.kind = "list" THEN <<"[">> \o rows \o <<"]">>
    ELSE <<"{">> \o fields \o <<",", "[">> \o rows \o <<"]", "}">>

\* lines 1463-1466: what call_tool returns for the handler's result
Success(result) ==
    IF result.kind = "none" THEN <<TextContent(<<NO_DATA>>)>>
    ELSE <<TextContent(json_dumps(result))>>

\* every exception is reported as an input error with its text
Except_AllAsInputError(exc) ==
    [response |-> <<TextContent(<<INPUT_ERROR>> \o exc.msg)>>, escaped |-> FALSE]

\* only ValueError is caught
Except_OnlyValueError(exc) ==
    IF exc.ty = "ValueError"
    THEN [response |-> <<TextContent(<<INPUT_ERROR>> \o exc.msg)>>, escaped |-> FALSE]
    ELSE [response |-> <<>>, escaped |-> TRUE]

\* lines 1468-1472: the except clauses of call_tool. Every exception class the
\* handlers and the driver raise derives from Exception.
Except(exc) ==
    IF exc.ty = "ValueError"
    THEN [response |-> <<TextContent(<<INPUT_ERROR>> \o exc.msg)>>, escaped |-> FALSE]
    ELSE [response |-> <<TextContent(<<GENERIC_FAILURE>>)>>, escaped |-> FALSE]

\* line 1461
UnknownTool(n) == <<TextContent(<<UNKNOWN_TOOL, n>>)>>

\* an unknown name falls through to the handler of the last branch
IsKnown_Fallthrough(n) == TRUE

\* the if / elif chain without its last branch
IsKnown_WithoutLast(n) == n \in ToolNames \ {"get_underperforming_films"}

\* the names for which some branch of the if / elif chain is taken
IsKnown(n) == n \in ToolNames

\* the names of the tools list_tools returns, in the order it returns them
list_tools ==
    <<"search_films", "get_film_details", "list_categories", "check_film_availability",
      "get_actor_filmography", "search_customers", "get_customer_details",
      "get_customer_rentals", "get_overdue_rentals", "get_popular_films",
      "get_revenue_summary", "get_store_stats", "get_top_customers",
      "get_customer_segments", "get_customer_activity", "get_inventory_turnover",
      "get_category_performance", "get_underperforming_films">>

----------------------------------------------------------------------------
(* The state between requests *)

Pending == [exc |-> [ty |-> "pending", msg |-> <<>>], val |-> None]

Idle ==
    /\ pc = "idle"
    /\ name = ""
    /\ arguments = NoArgs
    /\ loc = NoArgs
    /\ step = 0
    /\ ctx = <<>>
    /\ sql = <<>>
    /\ params = <<>>
    /\ conn = "none"
    /\ opened = 0
    /\ closed = 0
    /\ queries = <<>>
    /\ answers = <<>>
    /\ fault = NoFault
    /\ response = <<>>
    /\ escaped = FALSE
    /\ served = 0

\* no coroutine of ConcurrentSpec
NoTasks == tasks = <<>> /\ pool = {}

----------------------------------------------------------------------------
(* The requests the transport makes *)

Injection == <<"'", ";", "DROP", "TABLE film", ";", "--">>

TitleVals == {ABSENT, StrV(<<>>), StrV(<<"L","o","v","e">>), StrV(Injection)}
CategoryVals == {ABSENT, StrV(<<"Action">>)}
RatingVals == {ABSENT, None, StrV(<<"p","g">>), StrV(<<"X">>), IntV(5)}
ActorVals == {ABSENT, StrV(<<"Nick">>)}
YearVals == {ABSENT, IntV(0), IntV(2006)}
LimitVals == {ABSENT, None, IntV(0), IntV(1000), StrV(<<"a","b","c">>)}
FewLimitVals == {ABSENT, None, IntV(1000)}
StoreVals == {ABSENT, IntV(0), IntV(1), IntV(3), ListV}
EmailVals == {ABSENT, StrV(<<>>), StrV(<<"@example.com">>)}
CustomerIdVals == {ABSENT, None, IntV(0), IntV(7)}
StatusVals == {ABSENT, None, StrV(<<"A","C","T","I","V","E">>),
               StrV(<<"r","e","t","u","r","n","e","d">>), StrV(<<"x">>), IntV(5)}
DaysVals == {ABSENT, None, IntV(0), IntV(0 - 1), IntV(7), StrV(<<"7">>)}
PeriodVals == {ABSENT, None, StrV(<<"L","A","S","T","_","W","E","E","K">>),
               StrV(LAST_MONTH), StrV(<<"x">>), IntV(5)}
GroupByVals == {ABSENT, None, StrV(<<"c","a","t","e","g","o","r","y">>),
                StrV(<<"M","o","n","t","h">>), StrV(<<"s","t","a","f","f">>),
                StrV(<<"x">>), IntV(5)}
MetricVals == {ABSENT, None, StrV(<<"R","E","N","T","A","L","S">>), StrV(<<"x">>), IntV(5)}
DaysNotRentedVals == {ABSENT, None, IntV(0), IntV(30), IntV(1000)}

ArgumentMaps(n) ==
    CASE n = "search_films" ->
            { [NoArgs EXCEPT !.title = t, !.category = c, !.rating = r, !.actor_name = a,
                             !.release_year = y] :
                t \in TitleVals, c \in CategoryVals, r \in RatingVals, a \in ActorVals,
                y \in YearVals }
            \cup { [NoArgs EXCEPT !.title = t, !.rating = r, !.limit = k] :
                     t \in {ABSENT, StrV(<<"L","o","v","e">>)}, r \in RatingVals,
                     k \in LimitVals }
      [] n \in {"get_film_details"} ->
            { [NoArgs EXCEPT !.title = t] : t \in TitleVals \cup {None} }
      [] n = "check_film_availability" ->
            { [NoArgs EXCEPT !.title = t, !.store_id = st] :
                t \in TitleVals, st \in StoreVals }
      [] n = "get_actor_filmography" ->
            { [NoArgs EXCEPT !.actor_name = a] : a \in ActorVals \cup {StrV(<<>>), None} }
      [] n = "search_customers" ->
            { [NoArgs EXCEPT !.name = a, !.email = e, !.store_id = st, !.active_only = o,
                             !.limit = k] :
                a \in ActorVals, e \in EmailVals, st \in StoreVals,
                o \in {ABSENT, BoolV(FALSE)}, k \in FewLimitVals }
      [] n = "get_customer_details" ->
            { [NoArgs EXCEPT !.customer_id = c, !.email = e] :
                c \in CustomerIdVals, e \in EmailVals }
      [] n = "get_customer_rentals" ->
            { [NoArgs EXCEPT !.customer_id = c, !.status = st, !.limit = k] :
                c \in {ABSENT, IntV(7)}, st \in StatusVals, k \in FewLimitVals }
            \cup { [NoArgs EXCEPT !.customer_id = StrV(<<"7">>)] }
      [] n = "get_overdue_rentals" ->
            { [NoArgs EXCEPT !.store_id = st, !.days_overdue = d, !.limit = k] :
                st \in StoreVals, d \in DaysVals, k \in FewLimitVals }
      [] n = "get_popular_films" ->
            { [NoArgs EXCEPT !.period = p, !.category = c, !.store_id = st, !.limit = k] :
                p \in PeriodVals, c \in CategoryVals, st \in StoreVals, k \in FewLimitVals }
      [] n = "get_revenue_summary" ->
            { [NoArgs EXCEPT !.group_by = g, !.store_id = st] :
                g \in GroupByVals, st \in StoreVals }
      [] n = "get_store_stats" ->
            { [NoArgs EXCEPT !.store_id = st] : st \in StoreVals \cup {None} }
      [] n = "get_top_customers" ->
            { [NoArgs EXCEPT !.metric = m, !.period = p, !.limit = k] :
                m \in MetricVals, p \in PeriodVals, k \in FewLimitVals }
      [] n = "get_customer_activity" ->
            { [NoArgs EXCEPT !.period = p] : p \in PeriodVals }
      [] n = "get_inventory_turnover" ->
            { [NoArgs EXCEPT !.store_id = st, !.category = c] :
                st \in StoreVals, c \in CategoryVals }
      [] n = "get_category_performance" ->
            { [NoArgs EXCEPT !.period = p, !.store_id = st] :
                p \in PeriodVals, st \in StoreVals }
      [] n = "get_underperforming_films" ->
            { [NoArgs EXCEPT !.days_not_rented = d, !.store_id = st] :
                d \in DaysNotRentedVals, st \in StoreVals }
      [] OTHER -> { NoArgs, [NoArgs EXCEPT !.title = StrV(<<"L","o","v","e">>),
                                           !.store_id = IntV(3)] }

UnknownNames == {"unknown_tool", "query", "SEARCH_FILMS"}
\* a client calls what list_tools advertises, and other names
Names == {list_tools[i] : i \in 1..Len(list_tools)} \cup UnknownNames

----------------------------------------------------------------------------
(* The database collaborator *)

IdKeyed == {"get_actor_filmography", "search_customers", "get_customer_details",
            "get_customer_rentals", "get_store_stats", "get_top_customers",
            "get_customer_segments"}

KeyFor(n) == IF n \in IdKeyed THEN IntV(7) ELSE StrV(<<"Chance Love">>)

GoodRow(n) == Row(KeyFor(n), IntV(3), DecimalV(5), DecimalV(2), TRUE)
\* aggregates over nothing: NULL in every computed column
NullRow(n) == Row(KeyFor(n), None, None, None, TRUE)
\* a decimal column delivered as text that is no number
TextRow(n) == Row(KeyFor(n), IntV(3), StrV(<<"N/A">>), StrV(<<"N/A">>), TRUE)
\* a row without the columns the handler subscripts
ShortRow(n) == Row(None, None, None, None, FALSE)

\* customer rows of get_customer_segments: (rental_count, total_spent) around
\* the thresholds 20 / 100, 10 / 50 and 1, null aggregates, and a bad column
SegmentRows ==
    { Row(IntV(7), IntV(c[1]), DecimalV(c[2]), None, TRUE) :
        c \in {<<20, 100>>, <<25, 60>>, <<19, 120>>, <<0, 60>>, <<9, 49>>, <<0, 49>>} }
    \cup {NullRow("get_customer_segments"), TextRow("get_customer_segments")}

\* the one-row answers of a COUNT query, for counts other than GoodRow's 3
CountRows == { <<Row(None, IntV(c), None, None, TRUE)>> : c \in 1..2 }

\* overdue rentals, their days_overdue in cnt: 3 and 10 days late
OverdueRows ==
    { Row(KeyFor("get_overdue_rentals"), IntV(d), None, None, TRUE) : d \in {3, 10} }

RowSet(n) ==
    IF n = "get_customer_segments" THEN SegmentRows
    ELSE IF n = "get_overdue_rentals" THEN OverdueRows
    ELSE {GoodRow(n), NullRow(n), TextRow(n), ShortRow(n)}

OVERDUE_DAYS == "DATEDIFF(CURDATE(), r.rental_date) - f.rental_duration"

\* the least days_overdue a statement over the overdue rentals lets through:
\* the value bound to "AND <days_overdue> >= %s" if the statement has that
\* condition, and 1 otherwise (DATEDIFF(...) > f.rental_duration)
DaysOverdueFloor(s, p) ==
    LET at == {j \in 3..Len(s) : s[j] = "%s" /\ s[j - 1] = ">=" /\ s[j - 2] = OVERDUE_DAYS} IN
    IF at = {} THEN 1
    ELSE LET j == CHOOSE j \in at : TRUE IN
         p[Cardinality({i \in 1..j : s[i] = "%s"})].n

\* the database evaluates the WHERE clause of the statement it was sent: it
\* returns no overdue rental below the statement's floor
Selects(n, s, p, rows) ==
    n = "get_overdue_rentals" =>
        \A i \in 1..Len(rows) : rows[i].cnt.n >= DaysOverdueFloor(s, p)

\* the operations whose single query returns the list they report
ListOps == {"search_films", "list_categories", "search_customers", "get_overdue_rentals",
            "get_popular_films", "get_revenue_summary", "get_store_stats",
            "get_top_customers", "get_customer_segments", "get_inventory_turnover",
            "get_category_performance", "get_underperforming_films"}

\* what fetchall() can return to the k-th query of the handler of n
ResultSets(n, k) ==
    IF n \in ListOps
    THEN UNION { [1..m -> RowSet(n)] : m \in 0..MaxRows }
    ELSE { <<>>, <<GoodRow(n)>>, <<NullRow(n)>>, <<ShortRow(n)>>,
           <<GoodRow(n), TextRow(n)>> }
           \cup (IF n = "get_customer_activity" THEN CountRows ELSE {})

\* get_db_config raises ValueError when MYSQL_PORT is no integer (line 118);
\* aiomysql.connect raises its own errors
ConnectFaults ==
    { Exc("ValueError", <<"invalid literal for int() with base 10: 'MYSQL_PORT'">>),
      Exc("OperationalError", <<"(2003, \"Can't connect to MySQL server\")">>) }

\* what the driver raises from cursor(), execute() or fetchall(): its own
\* error classes, and ValueError / TypeError from formatting sql % params
DriverFaults ==
    { Exc("ValueError", <<"unsupported format character">>),
      Exc("TypeError", <<"not all arguments converted during string formatting">>),
      Exc("ProgrammingError", <<"(1064, 'You have an error in your SQL syntax')">>) }

----------------------------------------------------------------------------
(* The request as a process: call_tool runs to its first await, then one
   step per await of execute_query (connect, execute, fetchall) *)

Init ==
    /\ Idle
    /\ NoTasks
    /\ fn = "none"
    /\ vin = None
    /\ vmax = 0
    /\ vout = Pending

\* the except clauses took over: call_tool returns their response
Fail(exc, at) ==
    /\ pc' = "responded"
    /\ fault' = [at |-> at, exc |-> exc]
    /\ response' = Except(exc).response
    /\ escaped' = Except(exc).escaped

\* the handler went on from an await: its next query, its return or its raise
Proceed(o, at, step0, queries0) ==
    /\ step' = IF o.k = "query" THEN step0 + 1 ELSE step0
    /\ queries' = IF o.k = "query"
                  THEN Append(queries0, [sql |-> o.sql, params |-> o.params])
                  ELSE queries0
    /\ sql' = IF o.k = "query" THEN o.sql ELSE <<>>
    /\ params' = IF o.k = "query" THEN o.params ELSE <<>>
    /\ CASE o.k = "query" ->
               /\ pc' = "connecting"
               /\ UNCHANGED <<fault, response, escaped>>
         [] o.k = "return" ->
               /\ pc' = "responded"
               /\ response' = Success(o.result)
               /\ UNCHANGED <<fault, escaped>>
         [] OTHER -> Fail(o.exc, at)

\* call_tool(n, args) up to the first await of the handler, or to its return
CallTool(n, args) ==
    /\ pc = "idle"
    /\ served < MaxServed
    /\ name' = n
    /\ arguments' = args
    /\ IF ~IsKnown(n)
       THEN /\ pc' = "responded"
            /\ response' = UnknownTool(n)
            /\ UNCHANGED <<loc, step, queries, sql, params, fault, escaped>>
       ELSE LET v == Validate(n, call_args(n, args))
                o == Handler(n, v.loc, <<>>)
            IN  IF v.exc.ty # "none"
                THEN /\ Fail(v.exc, "validation")
                     /\ UNCHANGED <<loc, step, queries, sql, params>>
                ELSE /\ loc' = v.loc
                     /\ Proceed(o, "build", 0, <<>>)
    /\ UNCHANGED <<ctx, conn, opened, closed, answers, served>>
    /\ UNCHANGED unitVars
    /\ UNCHANGED concVars

Receive == \E n \in Names : \E args \in ArgumentMaps(n) : CallTool(n, args)

\* get_connection, lines 128-131: the connection is open and yielded
Connect ==
    /\ pc = "connecting"
    /\ pc' = "executing"
    /\ conn' = "open"
    /\ opened' = opened + 1
    /\ UNCHANGED <<name, arguments, loc, step, ctx, sql, params, closed, queries,
                   answers, fault, response, escaped, served>>
    /\ UNCHANGED unitVars
    /\ UNCHANGED concVars

\* get_db_config or aiomysql.connect raises: there is no connection to close
ConnectFails ==
    /\ pc = "connecting"
    /\ \E e \in ConnectFaults : Fail(e, "connect")
    /\ answers' = Append(answers, "error")
    /\ UNCHANGED <<name, arguments, loc, step, ctx, sql, params, conn, opened, closed,
                   queries, served>>
    /\ UNCHANGED unitVars
    /\ UNCHANGED concVars

\* lines 148-149: conn.cursor() and cursor.execute(sql, params) return
Execute ==
    /\ pc = "executing"
    /\ pc' = "fetching"
    /\ UNCHANGED <<name, arguments, loc, step, ctx, sql, params, conn, opened, closed,
                   queries, answers, fault, response, escaped, served>>
    /\ UNCHANGED unitVars
    /\ UNCHANGED concVars

\* get_connection without its try / finally: a raise leaves the connection open
ExecuteFails_NoClose ==
    /\ pc = "executing"
    /\ \E e \in DriverFaults : Fail(e, "execute")
    /\ answers' = Append(answers, "error")
    /\ UNCHANGED <<name, arguments, loc, step, ctx, sql, params, conn, opened, closed,
                   queries, served>>
    /\ UNCHANGED unitVars
    /\ UNCHANGED concVars

\* cursor() or execute() raises; the finally of get_connection closes
ExecuteFails ==
    /\ pc = "executing"
    /\ \E e \in DriverFaults : Fail(e, "execute")
    /\ conn' = "closed"
    /\ closed' = closed + 1
    /\ answers' = Append(answers, "error")
    /\ UNCHANGED <<name, arguments, loc, step, ctx, sql, params, opened, queries, served>>
    /\ UNCHANGED unitVars
    /\ UNCHANGED concVars

\* lines 150-151 and 133: fetchall() returns rows, the connection is closed,
\* and the handler goes on with them to its next await or to its end
Fetch ==
    /\ pc = "fetching"
    /\ \E rows \in ResultSets(name, step) :
          /\ Selects(name, sql, params, rows)
          /\ ctx' = Append(ctx, rows)
          /\ answers' = Append(answers, IF rows = <<>> THEN "empty" ELSE "rows")
          /\ Proceed(Handler(name, loc, Append(ctx, rows)), "shaping", step, queries)
    /\ conn' = "closed"
    /\ closed' = closed + 1
    /\ UNCHANGED <<name, arguments, loc, opened, served>>
    /\ UNCHANGED unitVars
    /\ UNCHANGED concVars

\* fetchall() raises; the finally of get_connection closes
FetchFails ==
    /\ pc = "fetching"
    /\ \E e \in DriverFaults : Fail(e, "fetch")
    /\ conn' = "closed"
    /\ closed' = closed + 1
    /\ answers' = Append(answers, "error")
    /\ UNCHANGED <<name, arguments, loc, step, ctx, sql, params, opened, queries, served>>
    /\ UNCHANGED unitVars
    /\ UNCHANGED concVars

\* the transport has the response; nothing of the request stays behind
Deliver ==
    /\ pc = "responded"
    /\ pc' = "idle"
    /\ name' = ""
    /\ arguments' = NoArgs
    /\ loc' = NoArgs
    /\ step' = 0
    /\ ctx' = <<>>
    /\ sql' = <<>>
    /\ params' = <<>>
    /\ conn' = "none"
    /\ opened' = 0
    /\ closed' = 0
    /\ queries' = <<>>
    /\ answers' = <<>>
    /\ fault' = NoFault
    /\ response' = <<>>
    /\ escaped' = FALSE
    /\ served' = served + 1
    /\ UNCHANGED unitVars
    /\ UNCHANGED concVars

Next ==
    \/ Receive
    \/ Deliver
    \/ Connect
    \/ ConnectFails
    \/ Execute
    \/ ExecuteFails
    \/ Fetch
    \/ FetchFails

Spec == Init /\ [][Next]_vars

----------------------------------------------------------------------------
(* ValidatorSpec: each validator applied to one drawn argument *)

RatingAlphabet == {"G", "g", "P", "p", "R", "r", "X", "-"}

StringsUpTo(alphabet, k) == UNION { [1..m -> alphabet] : m \in 0..k }

RatingInputs ==
    {None, IntV(5), ListV}
    \cup { StrV(cs) : cs \in StringsUpTo(RatingAlphabet, MaxStrLen) }
    \cup { StrV(r) : r \in VALID_RATINGS }
    \cup { StrV(lower(r)) : r \in VALID_RATINGS }
    \cup { StrV(<<"P","g","-","1","3">>), StrV(<<"n","C","-","1","7">>),
           StrV(<<"P","G","-","1","4">>), StrV(<<"P","G","1","3">>),
           StrV(<<"P","G","-","1","3"," ">>) }

StoreInputs ==
    {None, ListV, BoolV(TRUE), StrV(<<"1">>)} \cup { IntV(k) : k \in (0 - MaxInt)..MaxInt }

LimitInputs ==
    {None, ListV, StrV(<<"7">>), StrV(<<"a","b","c">>)}
    \cup { IntV(k) : k \in (0 - MaxInt)..MaxInt }
    \cup { IntV(k) : k \in {9, 10, 11, 49, 50, 51, 99, 100, 101, 1000} }

LimitMaxima == {1, 3, 10, MAX_LIMIT, 100}

EnumAlphabet == {"a", "A", "l", "L", "x"}

EnumInputs(valid) ==
    {None, IntV(5)}
    \cup { StrV(cs) : cs \in StringsUpTo(EnumAlphabet, MaxStrLen + 1) }
    \cup { StrV(m) : m \in valid }
    \cup { StrV(upper(m)) : m \in valid }

Validators == {"validate_rating", "validate_store_id", "validate_limit",
               "validate_rental_status", "validate_group_by", "validate_period",
               "validate_metric"}

UnitInputs(f) ==
    CASE f = "validate_rating" -> RatingInputs
      [] f = "validate_store_id" -> StoreInputs
      [] f = "validate_limit" -> LimitInputs
      [] f = "validate_rental_status" -> EnumInputs(VALID_RENTAL_STATUS)
      [] f = "validate_group_by" -> EnumInputs(VALID_GROUP_BY)
      [] f = "validate_period" -> EnumInputs(VALID_PERIOD)
      [] f = "validate_metric" -> EnumInputs(VALID_METRICS)

UnitInit ==
    /\ Idle
    /\ NoTasks
    /\ fn \in Validators
    /\ vin \in UnitInputs(fn)
    /\ vmax \in IF fn = "validate_limit" THEN LimitMaxima ELSE {0}
    /\ vout = Pending

Apply(f, out) ==
    /\ fn = f
    /\ vout = Pending
    /\ vout' = out
    /\ UNCHANGED <<fn, vin, vmax>>
    /\ UNCHANGED reqVars
    /\ UNCHANGED concVars

ApplyValidateRating == Apply("validate_rating", validate_rating(vin))
ApplyValidateStoreId == Apply("validate_store_id", validate_store_id(vin))
ApplyValidateLimit == Apply("validate_limit", validate_limit(vin, vmax))
ApplyValidateRentalStatus == Apply("validate_rental_status", validate_rental_status(vin))
ApplyValidateGroupBy == Apply("validate_group_by", validate_group_by(vin))
ApplyValidatePeriod == Apply("validate_period", validate_period(vin))
ApplyValidateMetric == Apply("validate_metric", validate_metric(vin))

UnitNext ==
    \/ ApplyValidateRating
    \/ ApplyValidateStoreId
    \/ ApplyValidateLimit
    \/ ApplyValidateRentalStatus
    \/ ApplyValidateGroupBy
    \/ ApplyValidatePeriod
    \/ ApplyValidateMetric

ValidatorSpec == UnitInit /\ [][UnitNext]_vars

Applied(f) == fn = f /\ vout # Pending

\* two characters that are the same letter in either case, or the same character
SameIgnoringCase(c, d) ==
    \/ c = d
    \/ \E i \in 1..Len(LowerCase) : {c, d} = {LowerCase[i], UpperCase[i]}

EqualIgnoringCase(a, b) ==
    Len(a) = Len(b) /\ \A i \in 1..Len(a) : SameIgnoringCase(a[i], b[i])

\* C9: validate_rating returns None for an absent rating, the upper-case member
\* of {G, PG, PG-13, R, NC-17} for a rating equal to it ignoring case, and fails
\* every other string with a ValueError whose message names the value given and
\* lists every valid rating.
C9_ValidateRating ==
    Applied("validate_rating") =>
        /\ vin = None => vout = Ok(None)
        /\ vin.t = "str" =>
              IF \E r \in VALID_RATINGS : EqualIgnoringCase(vin.s, r)
              THEN \E r \in VALID_RATINGS :
                      EqualIgnoringCase(vin.s, r) /\ vout = Ok(StrV(r))
              ELSE /\ vout.exc.ty = "ValueError"
                   /\ Contains(vout.exc.msg, <<INVALID_RATING>> \o vin.s)
                   /\ \A r \in VALID_RATINGS : Contains(vout.exc.msg, r)

C9_Witness ==
    /\ Applied("validate_rating")
    /\ vin = StrV(<<"p","g">>)
    /\ vout = Ok(StrV(<<"P","G">>))

\* C10: validate_store_id returns None for an absent store id, returns 1 and 2
\* unchanged, and fails every other integer (0 and the negatives included) with
\* the invalid-store ValueError.
C10_ValidateStoreId ==
    Applied("validate_store_id") =>
        /\ vin = None => vout = Ok(None)
        /\ vin.t = "int" /\ vin.n \in {1, 2} => vout = Ok(vin)
        /\ vin.t = "int" /\ vin.n \notin {1, 2} =>
              /\ vout.exc.ty = "ValueError"
              /\ StartsWith(vout.exc.msg, <<INVALID_STORE>>)

C10_Witness ==
    /\ Applied("validate_store_id")
    /\ vin = IntV(0)
    /\ vout.exc.ty = "ValueError"


----------------------------------------------------------------------------
(* The claims about call_tool, checked under Spec *)

Responded == pc = "responded"

ResponseText == response[1].text

IsInputError == Len(response) = 1 /\ StartsWith(ResponseText, <<INPUT_ERROR>>)
IsGenericFailure == response = <<TextContent(<<GENERIC_FAILURE>>)>>
IsUnknownTool == response = <<TextContent(<<UNKNOWN_TOOL, name>>)>>
IsNoData == response = <<TextContent(<<NO_DATA>>)>>

NoRoundTrip == opened = 0 /\ queries = <<>> /\ answers = <<>> /\ conn = "none"

\* C1: when an argument fails its validator, the response starts with the
\* input-error prefix, and no connection is acquired and no query executed.
C1_ValidationFailure ==
    (Responded /\ fault.at = "validation") => (IsInputError /\ NoRoundTrip)

\* C1, the failing case: a rating that is no string fails validate_rating
\* with AttributeError, which call_tool reports as the generic failure.
C1_Witness ==
    /\ Responded
    /\ name = "search_films"
    /\ arguments.rating = IntV(5)
    /\ fault.at = "validation"
    /\ fault.exc.ty = "AttributeError"
    /\ IsGenericFailure
    /\ NoRoundTrip

\* C2: a fault after validation has passed (building the query, connecting,
\* the driver round-trip, shaping the rows) is reported only as the fixed
\* generic failure message.
C2_PostValidationFaultsGeneric ==
    (Responded /\ fault.at \in {"build", "connect", "execute", "fetch", "shaping"})
        => IsGenericFailure

\* C2, the failing case: float() of a column that is no number raises
\* ValueError while get_revenue_summary shapes its rows, and the response is
\* the input-error prefix followed by the text of that exception.
C2_Witness ==
    /\ Responded
    /\ name = "get_revenue_summary"
    /\ fault.at = "shaping"
    /\ fault.exc.ty = "ValueError"
    /\ IsInputError
    /\ ResponseText = <<INPUT_ERROR>> \o fault.exc.msg

\* C3: whatever the name, the arguments and the behaviour of the database,
\* the request ends with a list of exactly one text content block, and no
\* exception leaves call_tool.
C3_OneTextBlock ==
    Responded => (Len(response) = 1 /\ response[1].type = "text" /\ ~escaped)

\* C3: a request whose result set was refused by the driver with an error
\* that is no ValueError still ends with one text block.
C3_Witness ==
    /\ Responded
    /\ fault.at = "fetch"
    /\ fault.exc.ty = "ProgrammingError"
    /\ Len(response) = 1
    /\ ~escaped

\* C4: a name that is none of the 18 registered names gets the one response
\* naming the unknown tool; nothing is raised, nothing validated, and there is
\* no round-trip to the database.
C4_UnknownTool ==
    (pc # "idle" /\ name \notin ToolNames)
        => /\ Responded
           /\ IsUnknownTool
           /\ ~escaped
           /\ fault = NoFault
           /\ loc = NoArgs
           /\ NoRoundTrip

\* C4: an unknown name with arguments a validator would refuse.
C4_Witness ==
    /\ Responded
    /\ name = "unknown_tool"
    /\ arguments.store_id = IntV(3)
    /\ IsUnknownTool


\* every result set the database returned to this request was empty
AllEmpty == answers # <<>> /\ \A i \in 1..Len(answers) : answers[i] = "empty"

\* the operations that look one entity up first and return None without it
LookupOps == {"get_film_details", "check_film_availability", "get_actor_filmography",
              "get_customer_details", "get_customer_rentals"}

\* C5 as stated: for every operation, when the database returns an empty
\* result set, the response is the explicit no-matching-data message.
C5_EmptyIsNoData == (Responded /\ AllEmpty) => IsNoData

\* C5 as amended: an empty result is never a failure and never an exception;
\* it is the no-matching-data message exactly for the lookup operations, whose
\* first lookup found nothing (and then no further query is made), and the
\* JSON of the empty list or of the zeroed summary for every other operation.
C5_EmptyIsNoFailure ==
    (Responded /\ AllEmpty)
        => /\ fault = NoFault
           /\ ~escaped
           /\ ~IsGenericFailure
           /\ ~IsInputError
           /\ IsNoData <=> name \in LookupOps
           /\ name \in LookupOps => Len(queries) = 1
           /\ name \notin LookupOps
                => ResponseText[1] \in {"[", "{"}

\* C5: a lookup that found nothing, answered with the no-data message.
C5_Witness ==
    /\ Responded
    /\ name = "get_film_details"
    /\ answers = <<"empty">>
    /\ IsNoData

\* the placeholders of a statement
Placeholders(s) == Cardinality({i \in 1..Len(s) : s[i] = "%s"})

WriteKeywords == {"INSERT", "UPDATE", "DELETE", "REPLACE", "DROP", "CREATE", "ALTER",
                  "TRUNCATE", "GRANT", "CALL", "SET", "INTO", ";"}

\* one statement, and a SELECT: it starts with SELECT and has no statement
\* separator and no keyword of a write or of DDL
ReadOnlySelect(s) ==
    /\ s # <<>>
    /\ s[1] = "SELECT"
    /\ \A i \in 1..Len(s) : s[i] \notin WriteKeywords

\* C6: every statement passed to execute_query is one read-only SELECT.
C6_ReadOnly == \A i \in 1..Len(queries) : ReadOnlySelect(queries[i].sql)

\* C6: a search whose title carries a second, destructive statement has sent
\* its query.
C6_Witness ==
    /\ name = "search_films"
    /\ arguments.title = StrV(Injection)
    /\ Len(queries) = 1
    /\ conn = "closed"

\* C7: each (sql, params) pair passed to execute_query has as many %s
\* placeholders in sql as params has elements.
C7_PlaceholdersMatchParams ==
    \A i \in 1..Len(queries) : Placeholders(queries[i].sql) = Len(queries[i].params)

\* C7: a search with four optional filters present and the limit.
C7_Witness ==
    /\ name = "search_films"
    /\ Len(queries) = 1
    /\ Len(queries[1].params) = 5
    /\ Placeholders(queries[1].sql) = 5


\* the arguments whose value is checked against a closed set of names and
\* decides which of a few fixed SQL texts is built
EnumKeys == {"rating", "status", "period", "group_by", "metric"}

\* the free-form text arguments
TextKeys == {"title", "category", "actor_name", "name", "email"}

\* the key is in the argument map
Supplied(a, k) == a[k].t # "absent"

\* the argument has a value the builders treat as given: not null, not the
\* empty string, not zero, not false; days_overdue only when positive
Effective(a, k) ==
    IF k = "days_overdue" THEN IsNumber(a[k]) /\ a[k].n > 0 ELSE Truthy(a[k])

\* b passes validation with the same enum values after validation, and the
\* same active_only flag after its default, as the request in progress
SameEnums(b) ==
    LET vb == Validate(name, call_args(name, b)) IN
    /\ vb.exc.ty = "none"
    /\ \A k \in EnumKeys : vb.loc[k] = loc[k]
    /\ Truthy(vb.loc.active_only) = Truthy(loc.active_only)

\* the statement the handler would send now, had the request been made with b
SqlFor(b) == Handler(name, Validate(name, call_args(name, b)).loc, ctx)

\* no token of the statement is taken from a free-form text argument, and
\* a title that is given is in the bound parameters
BoundOnly ==
    /\ \A k \in TextKeys :
          arguments[k].t = "str"
              => \A i \in 1..Len(arguments[k].s) : \A j \in 1..Len(sql) :
                    sql[j] # arguments[k].s[i]
    /\ (name = "search_films" /\ Truthy(arguments.title))
          => \E j \in 1..Len(params) : params[j] = Like(arguments.title)

\* C8 as stated: two requests to one operation that supply the same set of
\* arguments and the same validated enum values (and flag) but differ in
\* free-form values send the same SQL text, and
\* the values reach the driver only as bound parameters.
C8_SameSuppliedSameSql ==
    pc = "connecting"
        => /\ BoundOnly
           /\ \A b \in ArgumentMaps(name) :
                 ( /\ \A k \in Keys : Supplied(b, k) = Supplied(arguments, k)
                   /\ SameEnums(b)
                   /\ SqlFor(b).k = "query" )
                     => SqlFor(b).sql = sql

\* C8 as amended: the same holds of two requests that give the same set of
\* free-form arguments a value that counts (null, the empty string, zero, and
\* a days_overdue that is not positive, are treated as if the argument were
\* not supplied, and its clause is left out).
C8_SameEffectiveSameSql ==
    pc = "connecting"
        => /\ BoundOnly
           /\ \A b \in ArgumentMaps(name) :
                 ( /\ \A k \in Keys : Effective(b, k) = Effective(arguments, k)
                   /\ SameEnums(b)
                   /\ SqlFor(b).k = "query" )
                     => SqlFor(b).sql = sql

\* C8: the injection title is on its way to the driver, as a parameter.
C8_Witness ==
    /\ pc = "connecting"
    /\ name = "search_films"
    /\ arguments.title = StrV(Injection)
    /\ arguments.category = StrV(<<"Action">>)
    /\ params[1] = StrV(<<"%">> \o Injection \o <<"%">>)
    /\ \A j \in 1..Len(sql) : sql[j] \notin {"DROP", "Action"}


\* the operations that take a limit argument
LimitOps == {"search_films", "search_customers", "get_customer_rentals",
             "get_overdue_rentals", "get_popular_films", "get_top_customers"}

\* the statement ends with a bound LIMIT
HasBoundLimit(q) ==
    Len(q.sql) >= 2 /\ SubSeq(q.sql, Len(q.sql) - 1, Len(q.sql)) = <<"LIMIT", "%s">>

\* the value bound to the trailing LIMIT placeholder
BoundLimit(q) == q.params[Len(q.params)]

\* C12: when the limit is absent (key missing or null), the limit bound into
\* the query is 20 for get_overdue_rentals and 10 for every other operation
\* that takes a limit.
C12_DefaultLimit ==
    (name \in LimitOps /\ arguments.limit.t \in {"absent", "null"})
        => \A i \in 1..Len(queries) :
              HasBoundLimit(queries[i])
                  => BoundLimit(queries[i])
                       = IntV(IF name = "get_overdue_rentals" THEN 20 ELSE DEFAULT_LIMIT)

\* C12, the failing case: get_overdue_rentals with limit null has bound 10.
C12_Witness ==
    /\ name = "get_overdue_rentals"
    /\ arguments.limit = None
    /\ Len(queries) = 1
    /\ HasBoundLimit(queries[1])
    /\ BoundLimit(queries[1]) = IntV(DEFAULT_LIMIT)


ALL_TIME == <<"a","l","l","_","t","i","m","e">>

\* the enum arguments each operation takes
EnumArgsOf(n) ==
    CASE n = "get_customer_rentals" -> {"status"}
      [] n = "get_revenue_summary" -> {"group_by"}
      [] n = "get_top_customers" -> {"metric", "period"}
      [] n \in {"get_popular_films", "get_customer_activity", "get_category_performance"}
            -> {"period"}
      [] OTHER -> {}

ValidSet(k) ==
    CASE k = "status" -> VALID_RENTAL_STATUS
      [] k = "group_by" -> VALID_GROUP_BY
      [] k = "period" -> VALID_PERIOD
      [] OTHER -> VALID_METRICS

\* the "default" of the argument in the inputSchema of the operation
SchemaDefault(n, k) ==
    CASE k = "status" -> <<"a","l","l">>
      [] k = "group_by" -> <<"s","t","o","r","e">>
      [] k = "metric" -> <<"s","p","e","n","d","i","n","g">>
      [] OTHER -> IF n = "get_customer_activity" THEN LAST_MONTH ELSE ALL_TIME

\* C13: an enum argument (status, group_by, period, metric) that equals a
\* member of its set ignoring case is taken as the lower-case member, every
\* other string fails validation, and an absent argument (missing or null)
\* takes the default of the operation's schema: all, store, spending,
\* all_time, and last_month for the period of get_customer_activity.
C13_EnumDefaults ==
    (pc # "idle" /\ name \in ToolNames) =>
        \A k \in EnumArgsOf(name) :
            /\ (arguments[k].t = "str" /\ lower(arguments[k].s) \in ValidSet(k))
                  => (fault.at # "validation" => loc[k] = StrV(lower(arguments[k].s)))
            /\ (arguments[k].t = "str" /\ lower(arguments[k].s) \notin ValidSet(k))
                  => (fault.at = "validation" /\ NoRoundTrip)
            /\ arguments[k].t \in {"absent", "null"}
                  => (fault.at # "validation" => loc[k] = StrV(SchemaDefault(name, k)))

\* C13, the failing case: get_customer_activity with period null runs with
\* all_time, whose interval is one year.
C13_Witness ==
    /\ name = "get_customer_activity"
    /\ arguments.period = None
    /\ loc.period = StrV(ALL_TIME)
    /\ pc = "connecting"
    /\ \E j \in 1..Len(sql) : sql[j] = "YEAR"


\* get_customer_segments has answered a result set whose rows carry a number
\* or null in rental_count and in total_spent
SegmentsAnswered ==
    /\ Responded
    /\ name = "get_customer_segments"
    /\ Len(ctx) = 1
    /\ \A i \in 1..Len(ctx[1]) :
          /\ ctx[1][i].wf
          /\ ctx[1][i].cnt.t \in {"int", "null"}
          /\ ctx[1][i].amt.t \in {"decimal", "int", "null"}

\* what get_customer_segments returns for the customer rows given
SegmentsOf(rows) == get_customer_segments(loc, <<rows>>).result

\* the count reported for the i-th segment (vip, regular, occasional, inactive)
Bucket(result, i) == result.rows[i].cnt.n

BucketSum(result) ==
    Bucket(result, 1) + Bucket(result, 2) + Bucket(result, 3) + Bucket(result, 4)

\* C14: whatever the customer rows, null values included, each row increments
\* exactly one of the four buckets, the four counts sum to the number of rows,
\* and total_customers is that number.
C14_SegmentsPartition ==
    SegmentsAnswered =>
        /\ fault = NoFault
        /\ response = Success(SegmentsOf(ctx[1]))
        /\ Len(SegmentsOf(ctx[1]).rows) = 4
        /\ BucketSum(SegmentsOf(ctx[1])) = Len(ctx[1])
        /\ SegmentsOf(ctx[1]).fields = << <<"total_customers", IntV(Len(ctx[1]))>> >>
        /\ \A i \in 1..Len(ctx[1]) :
              /\ BucketSum(SegmentsOf(<<ctx[1][i]>>)) = 1
              /\ \A b \in 1..4 :
                    Bucket(SegmentsOf(SubSeq(ctx[1], 1, i)), b)
                      = Bucket(SegmentsOf(SubSeq(ctx[1], 1, i - 1)), b)
                          + Bucket(SegmentsOf(<<ctx[1][i]>>), b)

\* C14: a customer with null aggregates and a customer with 20 rentals and
\* 100 spent have been counted.
C14_Witness ==
    /\ SegmentsAnswered
    /\ Len(ctx[1]) = 2
    /\ ctx[1][1].cnt = None
    /\ ctx[1][2].cnt = IntV(20)
    /\ BucketSum(SegmentsOf(ctx[1])) = 2

\* the values the chain compares: null counts as 0
CountValue(v) == IF v.t = "null" THEN 0 ELSE v.n

\* the index of the first segment, in the order vip, regular, occasional,
\* inactive, whose criterion the customer meets
FirstMatching(r) ==
    LET rental_count == CountValue(r.cnt)
        total_spent == CountValue(r.amt) IN
    CHOOSE b \in 1..4 :
        /\ CASE b = 1 -> rental_count >= 20 /\ total_spent >= 100
             [] b = 2 -> rental_count >= 10 \/ total_spent >= 50
             [] b = 3 -> rental_count >= 1
             [] OTHER -> TRUE
        /\ \A a \in 1..(b - 1) :
              ~ CASE a = 1 -> rental_count >= 20 /\ total_spent >= 100
                  [] a = 2 -> rental_count >= 10 \/ total_spent >= 50
                  [] OTHER -> rental_count >= 1

AggregateOps ==
    {"get_popular_films", "get_revenue_summary", "get_store_stats", "get_top_customers",
     "get_inventory_turnover", "get_category_performance", "get_underperforming_films"}

\* the row columns an operation converts with float()
ConvertsAmt(n) ==
    n \in {"get_popular_films", "get_revenue_summary", "get_store_stats",
           "get_top_customers", "get_category_performance"}
ConvertsRate(n) ==
    n \in {"get_inventory_turnover", "get_category_performance", "get_underperforming_films"}

\* a request of one of these operations whose only query was answered with
\* complete rows in which every aggregate is a decimal or NULL, one at least NULL
NullAggregatesAnswered ==
    /\ Responded
    /\ name \in AggregateOps
    /\ Len(ctx) = 1
    /\ \A i \in 1..Len(ctx[1]) :
          /\ ctx[1][i].wf
          /\ ctx[1][i].amt.t \in {"decimal", "null"}
          /\ ctx[1][i].rate.t \in {"decimal", "null"}
    /\ \E i \in 1..Len(ctx[1]) :
          \/ ConvertsAmt(name) /\ ctx[1][i].amt = None
          \/ ConvertsRate(name) /\ ctx[1][i].rate = None

\* C16: a NULL monetary or decimal aggregate returned by the database is
\* emitted as 0.0 and never fails the request: the request ends without a
\* fault, its response is the serialized result, every NULL total_revenue,
\* total_spent, rental_rate, turnover_rate or avg_rentals_per_film of a row is
\* the float 0.0 in the result, and get_revenue_summary's grand_total is a float
C16_NullAggregatesAreZero ==
    NullAggregatesAnswered =>
        LET o == Handler(name, loc, ctx) IN
        /\ fault = NoFault
        /\ o.k = "return"
        /\ response = Success(o.result)
        /\ Len(o.result.rows) = Len(ctx[1])
        /\ \A i \in 1..Len(ctx[1]) :
              /\ (ConvertsAmt(name) /\ ctx[1][i].amt = None) => o.result.rows[i].amt = FloatV(0)
              /\ (ConvertsRate(name) /\ ctx[1][i].rate = None) => o.result.rows[i].rate = FloatV(0)
        /\ name = "get_revenue_summary" =>
              /\ Len(o.result.fields) = 1
              /\ o.result.fields[1][1] = "grand_total"
              /\ o.result.fields[1][2].t = "float"

\* get_revenue_summary is answered one row whose total_revenue is NULL, and the
\* request ends with the generic failure message after float(None) raised
C16_Witness ==
    /\ NullAggregatesAnswered
    /\ name = "get_revenue_summary"
    /\ ctx[1] = <<NullRow("get_revenue_summary")>>
    /\ fault.exc.ty = "TypeError"
    /\ IsGenericFailure

(***************************************************************************)
(* What search_films emits                                                 *)
(***************************************************************************)

\* search_films was answered by the database and the request ended without a fault
SearchAnswered ==
    /\ Responded
    /\ name = "search_films"
    /\ Len(ctx) = 1
    /\ fault = NoFault

\* the fetched rows with every decimal column replaced by the float of its value
DecimalsAsFloats(rows) ==
    [i \in 1..Len(rows) |->
        [rows[i] EXCEPT !.amt = IF @.t = "decimal" THEN FloatV(@.n) ELSE @,
                        !.rate = IF @.t = "decimal" THEN FloatV(@.n) ELSE @]]

\* the fetched rows with every decimal column replaced by the string of its text
DecimalsAsStrings(rows) ==
    [i \in 1..Len(rows) |->
        [rows[i] EXCEPT !.amt = IF @.t = "decimal" THEN StrV(PyStr(@)) ELSE @,
                        !.rate = IF @.t = "decimal" THEN StrV(PyStr(@)) ELSE @]]

\* C17 as stated: search_films answers with one text block, the JSON list of
\* exactly the records the database returned, in order, in which every
\* decimal field (rental_rate) is a floating-point number
C17_DecimalsAsFloats ==
    SearchAnswered =>
        response = <<TextContent(json_dumps(ListResult(DecimalsAsFloats(ctx[1]))))>>

\* what the code does instead: search_films returns the fetched records
\* unchanged and json.dumps(default=str) emits every decimal field as the JSON
\* string of the decimal's text
SearchFilmsEmitsDecimalText ==
    SearchAnswered =>
        /\ Handler(name, loc, ctx) = Return(ListResult(ctx[1]))
        /\ response = <<TextContent(json_dumps(ListResult(DecimalsAsStrings(ctx[1]))))>>

\* search_films is answered two records, the first with a decimal rental_rate,
\* and emits them in that order with the rate as a string
C17_Witness ==
    /\ SearchAnswered
    /\ ctx[1] = <<GoodRow("search_films"), NullRow("search_films")>>
    /\ response = <<TextContent(<<"[">> \o JsonRow(DecimalsAsStrings(ctx[1])[1]) \o <<",">>
                                  \o JsonRow(ctx[1][2]) \o <<"]">>)>>
    /\ DecimalsAsStrings(ctx[1])[1].rate = StrV(PyStr(DecimalV(2)))

(***************************************************************************)
(* Percentages                                                             *)
(***************************************************************************)

\* p tenths of a percent is count / total * 100 rounded to one decimal: no
\* other number of tenths is nearer to it
NearestTenth(p, count, total) ==
    LET d == p * total - 1000 * count IN
    2 * (IF d >= 0 THEN d ELSE 0 - d) <= total

\* v is the percentage the claim describes for count out of total
IsPercentageOf(v, count, total) ==
    IF total > 0
    THEN v.t = "float" /\ v.s = <<"tenths">> /\ NearestTenth(v.n, count, total)
    ELSE v.n = 0 /\ v.t \in {"int", "float"}

\* a COUNT query answered with nothing or with an integer count
IntCount(rows) == rows = <<>> \/ (rows[1].wf /\ rows[1].cnt.t = "int")

\* get_customer_activity had its four COUNT queries answered
ActivityAnswered ==
    /\ Responded
    /\ name = "get_customer_activity"
    /\ Len(ctx) = 4
    /\ \A k \in 1..4 : IntCount(ctx[k])

\* C18: every percentage of get_customer_segments and get_customer_activity
\* is count / total * 100 rounded to one decimal, is 0 when the total is 0,
\* and no request of either operation ends in a division fault.
C18_Percentages ==
    /\ ActivityAnswered =>
          LET o == Handler(name, loc, ctx)
              total == CountColumn(ctx[4]).val.n IN
          /\ fault = NoFault
          /\ o.k = "return"
          /\ response = Success(o.result)
          /\ \A k \in 1..3 :
                /\ o.result.fields[2 * k][2] = CountColumn(ctx[k]).val
                /\ IsPercentageOf(o.result.fields[2 * k + 1][2],
                                  CountColumn(ctx[k]).val.n, total)
    /\ SegmentsAnswered =>
          /\ fault = NoFault
          /\ response = Success(SegmentsOf(ctx[1]))
          /\ \A i \in 1..4 :
                IsPercentageOf(SegmentsOf(ctx[1]).rows[i].rate,
                               Bucket(SegmentsOf(ctx[1]), i), Len(ctx[1]))
    /\ (Responded /\ name \in {"get_customer_segments", "get_customer_activity"}) =>
          fault.exc.ty # "ZeroDivisionError"

\* get_customer_activity counts 2 active, 1 new and no dormant customer out
\* of 3 and reports 66.7, 33.3 and 0.0 percent
C18_Witness ==
    /\ ActivityAnswered
    /\ ctx[1] # <<>> /\ ctx[1][1].cnt = IntV(2)
    /\ ctx[2] # <<>> /\ ctx[2][1].cnt = IntV(1)
    /\ ctx[3] = <<>>
    /\ ctx[4] # <<>> /\ ctx[4][1].cnt = IntV(3)
    /\ Handler(name, loc, ctx).result.fields[3][2] = Tenths(667)
    /\ Handler(name, loc, ctx).result.fields[5][2] = Tenths(333)
    /\ Handler(name, loc, ctx).result.fields[7][2] = Tenths(0)
    /\ response = Success(Handler(name, loc, ctx).result)

(***************************************************************************)
(* Upper row bounds                                                        *)
(***************************************************************************)

\* the operations whose list query ends with the literal LIMIT 50
FixedLimitOps == {"get_inventory_turnover", "get_underperforming_films"}

\* the operations whose list query carries no LIMIT
UnlimitedOps ==
    {"list_categories", "get_store_stats", "get_revenue_summary",
     "get_category_performance", "get_actor_filmography"}

\* the position, among the queries of an operation, of the one that produces
\* the list it returns
ListQueryIndex(n) ==
    IF n \in {"get_customer_rentals", "get_actor_filmography"} THEN 2 ELSE 1

\* the largest limit an operation lets through
OpMax(n) == IF n = "get_overdue_rentals" THEN 100 ELSE MAX_LIMIT

HasLimit(q) == \E i \in 1..Len(q.sql) : q.sql[i] = "LIMIT"

\* the statement ends with the literal LIMIT 50
HasFixedLimit(q) ==
    Len(q.sql) >= 2 /\ SubSeq(q.sql, Len(q.sql) - 1, Len(q.sql)) = <<"LIMIT", "50">>

\* the list query of the request has been built
ListQueryIssued ==
    /\ name \in LimitOps \cup FixedLimitOps \cup UnlimitedOps
    /\ Len(queries) >= ListQueryIndex(name)

\* the row bound the list query carries, 0 when it carries none
RowBound(q) ==
    IF HasBoundLimit(q) THEN BoundLimit(q).n
    ELSE IF HasFixedLimit(q) THEN 50
    ELSE 0

\* C19 as stated: the list query of every list-returning operation carries a
\* LIMIT whose value is at most the operation's maximum (50, or 100 for
\* get_overdue_rentals), whatever limit the caller requests
C19_EveryListQueryLimited ==
    ListQueryIssued =>
        LET q == queries[ListQueryIndex(name)] IN
        /\ HasLimit(q)
        /\ HasBoundLimit(q) \/ HasFixedLimit(q)
        /\ 1 <= RowBound(q) /\ RowBound(q) <= OpMax(name)

\* C19 amended: the list query of every limit-accepting listing binds a
\* LIMIT between 1 and the operation's maximum (50, or 100 for
\* get_overdue_rentals) whatever limit the caller requests; the list queries
\* of get_inventory_turnover and get_underperforming_films end with the
\* literal LIMIT 50; the list queries of list_categories, get_store_stats,
\* get_revenue_summary, get_category_performance and get_actor_filmography
\* carry no LIMIT at all
C19_LimitedWhereDeclared ==
    ListQueryIssued =>
        LET q == queries[ListQueryIndex(name)] IN
        /\ name \in LimitOps =>
              /\ HasBoundLimit(q)
              /\ BoundLimit(q).t = "int"
              /\ 1 <= BoundLimit(q).n /\ BoundLimit(q).n <= OpMax(name)
              /\ Cardinality({i \in 1..Len(q.sql) : q.sql[i] = "LIMIT"}) = 1
        /\ name \in FixedLimitOps => HasFixedLimit(q) /\ ~HasBoundLimit(q)
        /\ name \in UnlimitedOps => ~HasLimit(q)

\* search_films is asked for 1000 rows and its query binds 50
C19_Witness ==
    /\ name = "search_films"
    /\ arguments.limit = IntV(1000)
    /\ Len(queries) = 1
    /\ HasBoundLimit(queries[1])
    /\ BoundLimit(queries[1]) = IntV(MAX_LIMIT)

(***************************************************************************)
(* The catalog and the dispatcher                                          *)
(***************************************************************************)

Advertised == {list_tools[i] : i \in 1..Len(list_tools)}

\* C20: list_tools advertises exactly 18 distinct names; call_tool routes a
\* request for each of them to its handler, whose first statement is the one
\* sent to the database, and never answers it as an unknown tool; a request
\* for any other name is answered as unknown without reaching a handler.
C20_CatalogMatchesDispatcher ==
    /\ Len(list_tools) = 18
    /\ Cardinality(Advertised) = 18
    /\ (pc # "idle" /\ name \in Advertised) =>
          /\ ~IsUnknownTool
          /\ Len(queries) >= 1 =>
                /\ Handler(name, loc, <<>>).k = "query"
                /\ queries[1] = [sql |-> Handler(name, loc, <<>>).sql,
                                 params |-> Handler(name, loc, <<>>).params]
    /\ (pc # "idle" /\ name \notin Advertised) =>
          /\ Responded
          /\ IsUnknownTool
          /\ loc = NoArgs
          /\ queries = <<>>

\* the last advertised tool is called, reaches its handler and is answered
\* with the list the handler returns
C20_Witness ==
    /\ Responded
    /\ name = list_tools[18]
    /\ name = "get_underperforming_films"
    /\ Len(queries) = 1
    /\ fault = NoFault
    /\ response = Success(get_underperforming_films(loc, ctx).result)
    /\ ~IsUnknownTool

(***************************************************************************)
(* search_films and a rating outside the valid set                         *)
(***************************************************************************)

\* every answer the database gave to this request, if any, was an empty result
OnlyEmptyAnswers == \A i \in 1..Len(answers) : answers[i] = "empty"

\* a search_films request whose rating is a string outside VALID_RATINGS, its
\* other arguments passing validation, served by a database that returns no
\* rows and raises nothing
InvalidRatingSearch ==
    /\ Responded
    /\ name = "search_films"
    /\ arguments.rating.t = "str"
    /\ upper(arguments.rating.s) \notin VALID_RATINGS
    /\ validate_limit(Get(arguments, "limit", IntV(DEFAULT_LIMIT)), MAX_LIMIT).exc = NoExc
    /\ OnlyEmptyAnswers
    /\ fault.at \notin {"connect", "execute", "fetch"}

\* C21: search_films ignores an invalid rating: with a rating outside the
\* valid set and a database that returns no rows, the request ends without an
\* error and answers one block carrying the empty search result.
C21_InvalidRatingIgnored ==
    InvalidRatingSearch =>
        /\ fault = NoFault
        /\ ~escaped
        /\ response = <<TextContent(json_dumps(ListResult(<<>>)))>>

\* search_films is called with title "Love" and rating "X": validate_rating
\* raises ValueError and the one block answered is the input error, before
\* any query
C21_Witness ==
    /\ InvalidRatingSearch
    /\ arguments.title = StrV(<<"L","o","v","e">>)
    /\ arguments.rating = StrV(<<"X">>)
    /\ fault.at = "validation"
    /\ fault.exc.ty = "ValueError"
    /\ Len(response) = 1
    /\ IsInputError
    /\ NoRoundTrip

(***************************************************************************)
(* A primary lookup that finds nothing                                     *)
(***************************************************************************)

\* the first query of a record-resolving operation was answered with no row
PrimaryLookupEmpty ==
    /\ name \in LookupOps
    /\ answers # <<>>
    /\ answers[1] = "empty"

\* C22: when the primary lookup of get_film_details, check_film_availability,
\* get_actor_filmography, get_customer_details or get_customer_rentals returns
\* zero rows, the request issues no further query and answers the explicit
\* "no data" message: no error response, no exception.
C22_NotFoundIsNoData ==
    PrimaryLookupEmpty =>
        /\ Responded
        /\ Len(queries) = 1
        /\ answers = <<"empty">>
        /\ opened = 1
        /\ IsNoData
        /\ fault = NoFault
        /\ ~escaped

\* get_customer_details looks customer 7 up, finds nothing and answers "no data"
C22_Witness ==
    /\ PrimaryLookupEmpty
    /\ name = "get_customer_details"
    /\ arguments.customer_id = IntV(7)
    /\ Len(queries) = 1
    /\ IsNoData

(***************************************************************************)
(* The days_overdue filter                                                 *)
(***************************************************************************)

\* get_overdue_rentals was asked for rentals at least N > 0 days overdue and
\* the database answered its query
OverdueAnswered ==
    /\ Responded
    /\ name = "get_overdue_rentals"
    /\ IsNumber(loc.days_overdue)
    /\ loc.days_overdue.n > 0
    /\ Len(ctx) = 1

\* C23: get_overdue_rentals with days_overdue = N > 0 sends N to the database
\* as the bound floor of the computed overdue days, and its output, the rows
\* the database selected, has no row whose overdue days are less than N.
C23_OverdueFloor ==
    OverdueAnswered =>
        LET out == Handler(name, loc, ctx).result IN
        /\ DaysOverdueFloor(queries[1].sql, queries[1].params) = loc.days_overdue.n
        /\ response = Success(out)
        /\ out.rows = ctx[1]
        /\ \A i \in 1..Len(out.rows) : out.rows[i].cnt.n >= loc.days_overdue.n

\* asked for rentals 7 days overdue, the operation reports the one 10 days late
C23_Witness ==
    /\ OverdueAnswered
    /\ arguments.days_overdue = IntV(7)
    /\ Len(ctx[1]) = 1
    /\ ctx[1][1].cnt = IntV(10)
    /\ response = Success(ListResult(ctx[1]))

(***************************************************************************)
(* The SQL Gatekeeper of the raw-query mode                                *)
(***************************************************************************)

ALLOWED_COMMANDS ==
    { <<"S","E","L","E","C","T">>,
      <<"S","H","O","W">>,
      <<"D","E","S","C","R","I","B","E">>,
      <<"D","E","S","C">>,
      <<"E","X","P","L","A","I","N">> }

\* the dangerous keywords, in the order they are scanned for
DANGEROUS_KEYWORDS ==
    << <<"I","N","S","E","R","T">>,
       <<"U","P","D","A","T","E">>,
       <<"D","E","L","E","T","E">>,
       <<"D","R","O","P">>,
       <<"T","R","U","N","C","A","T","E">>,
       <<"A","L","T","E","R">>,
       <<"C","R","E","A","T","E">>,
       <<"G","R","A","N","T">>,
       <<"R","E","V","O","K","E">> >>

Whitespace == {" ", "\t"}

WordChars ==
    {LowerCase[i] : i \in 1..Len(LowerCase)} \cup {UpperCase[i] : i \in 1..Len(UpperCase)}
        \cup {"_", "0", "1", "2", "3", "4", "5", "6", "7", "8", "9"}

RECURSIVE SkipWhitespace(_)
\* text without its leading whitespace
SkipWhitespace(text) ==
    IF text # <<>> /\ Head(text) \in Whitespace THEN SkipWhitespace(Tail(text)) ELSE text

RECURSIVE UpToWhitespace(_)
\* the characters of text before its first whitespace
UpToWhitespace(text) ==
    IF text = <<>> \/ Head(text) \in Whitespace THEN <<>>
    ELSE <<Head(text)>> \o UpToWhitespace(Tail(text))

\* the first whitespace-delimited token of text
FirstToken(text) == UpToWhitespace(SkipWhitespace(text))

\* word occurs in text between two word boundaries
WholeWordIn(word, text) ==
    \E a \in 1..Len(text) :
        /\ a + Len(word) - 1 <= Len(text)
        /\ SubSeq(text, a, a + Len(word) - 1) = word
        /\ (a = 1 \/ text[a - 1] \notin WordChars)
        /\ (a + Len(word) - 1 = Len(text) \/ text[a + Len(word)] \notin WordChars)

EMPTY_STATEMENT == "empty statement"
DISALLOWED_COMMAND == "disallowed command: "
DANGEROUS_KEYWORD == "dangerous keyword: "

\* the keyword scan is missing: only the leading command is looked at
Gatekeeper_NoKeywordScan(text) ==
    IF SkipWhitespace(text) = <<>> THEN Raise("RejectedStatement", <<EMPTY_STATEMENT>>)
    ELSE IF upper(FirstToken(text)) \notin ALLOWED_COMMANDS
         THEN Raise("RejectedStatement", <<DISALLOWED_COMMAND>> \o upper(FirstToken(text)))
         ELSE Ok(StrV(text))

\* the three steps of the classifier: the statement itself when it is accepted,
\* the rejection naming the violated rule otherwise
Gatekeeper(text) ==
    IF SkipWhitespace(text) = <<>> THEN Raise("RejectedStatement", <<EMPTY_STATEMENT>>)
    ELSE IF upper(FirstToken(text)) \notin ALLOWED_COMMANDS
         THEN Raise("RejectedStatement", <<DISALLOWED_COMMAND>> \o upper(FirstToken(text)))
         ELSE LET found == {k \in 1..Len(DANGEROUS_KEYWORDS) :
                              WholeWordIn(DANGEROUS_KEYWORDS[k], upper(text))} IN
              IF found # {}
              THEN Raise("RejectedStatement",
                         <<DANGEROUS_KEYWORD>>
                           \o DANGEROUS_KEYWORDS[CHOOSE k \in found : \A j \in found : k <= j])
              ELSE Ok(StrV(text))

MaxSqlLen == 3

\* the pieces raw statements are drawn from: whitespace, commands and keywords
\* in either case, characters that extend a word, and punctuation
SqlPieces ==
    { <<" ">>, <<"\t">>, <<"S","E","L","E","C","T">>, <<"s","h","o","w">>, <<"D","E","L","E","T","E">>, <<"d","r","o","p">>, <<"d">>, <<"_">>, <<";">>, <<"(">> }

CHAINED_DELETE == <<"S","E","L","E","C","T"," ","*"," ","F","R","O","M"," ","t",";"," ","D","E","L","E","T","E"," ","F","R","O","M"," ","t">>
UPDATE_TIME_COLUMN == <<" "," ","s","e","l","e","c","t"," ","u","p","d","a","t","e","_","t","i","m","e"," ","F","R","O","M"," ","t">>
EXPLAINED_SELECT == <<"e","x","p","l","a","i","n"," ","S","E","L","E","C","T"," ","c","r","e","a","t","e","d"," ","F","R","O","M"," ","t">>

SqlInputs ==
    { StrV(Join(ps, <<>>)) : ps \in StringsUpTo(SqlPieces, MaxSqlLen) }
        \cup {StrV(CHAINED_DELETE), StrV(UPDATE_TIME_COLUMN), StrV(EXPLAINED_SELECT)}

GatekeeperInit ==
    /\ Idle
    /\ NoTasks
    /\ fn = "Gatekeeper"
    /\ vin \in SqlInputs
    /\ vmax = 0
    /\ vout = Pending

ApplyGatekeeper == Apply("Gatekeeper", Gatekeeper(vin.s))

GatekeeperNext == ApplyGatekeeper

GatekeeperSpec == GatekeeperInit /\ [][GatekeeperNext]_vars

\* a..b is the first maximal run of non-whitespace characters of text
LeadingToken(text, a, b) ==
    /\ a <= b
    /\ \A i \in 1..(a - 1) : text[i] \in Whitespace
    /\ \A i \in a..b : text[i] \notin Whitespace
    /\ (b = Len(text) \/ text[b + 1] \in Whitespace)

LeadingCommandAllowed(text) ==
    \E a \in 1..Len(text) : \E b \in a..Len(text) :
        LeadingToken(text, a, b) /\ upper(SubSeq(text, a, b)) \in ALLOWED_COMMANDS

DangerousIn(text) ==
    {DANGEROUS_KEYWORDS[k] : k \in {j \in 1..Len(DANGEROUS_KEYWORDS) :
                                       WholeWordIn(DANGEROUS_KEYWORDS[j], upper(text))}}

\* C24: a raw statement is accepted if and only if its first
\* whitespace-delimited token, upper-cased, is SELECT, SHOW, DESCRIBE, DESC or
\* EXPLAIN and none of the nine dangerous keywords occurs in it as a whole
\* word; a rejection for a keyword names a keyword that occurs; empty and
\* whitespace-only input is rejected.
C24_Gatekeeper ==
    Applied("Gatekeeper") =>
        /\ vout.exc = NoExc <=> (LeadingCommandAllowed(vin.s) /\ DangerousIn(vin.s) = {})
        /\ vout.exc = NoExc => vout.val = vin
        /\ vout.exc # NoExc => vout.exc.ty = "RejectedStatement"
        /\ (LeadingCommandAllowed(vin.s) /\ DangerousIn(vin.s) # {}) =>
              \E kw \in DangerousIn(vin.s) : vout.exc.msg = <<DANGEROUS_KEYWORD>> \o kw
        /\ (\A i \in 1..Len(vin.s) : vin.s[i] \in Whitespace) =>
              vout.exc.msg = <<EMPTY_STATEMENT>>

\* "SELECT * FROM t; DELETE FROM t" is rejected citing DELETE
C24_Witness ==
    /\ Applied("Gatekeeper")
    /\ vin = StrV(CHAINED_DELETE)
    /\ vout = Raise("RejectedStatement", <<DANGEROUS_KEYWORD>> \o <<"D","E","L","E","T","E">>)

(***************************************************************************)
(* Scoped connection acquisition                                           *)
(***************************************************************************)

\* C25: every connection opened for a request is closed on every exit path of
\* the query that opened it: a connection is open only while that query is
\* being executed or fetched, at most one is open at a time, and once
\* call_tool has returned, and between requests, every connection the request
\* opened has been closed, whatever requests came before.
C25_ConnectionsClosed ==
    /\ conn = "open" <=> pc \in {"executing", "fetching"}
    /\ opened - closed = IF conn = "open" THEN 1 ELSE 0
    /\ Responded => (opened = closed /\ conn \in {"none", "closed"})
    /\ pc = "idle" => (opened = closed /\ conn = "none")
    /\ conn = "none" <=> opened = 0

\* the second request of a session opened two connections, the fetch on the
\* second raised, and both are closed when call_tool has returned
C25_Witness ==
    /\ Responded
    /\ served = 1
    /\ fault.at = "fetch"
    /\ opened = 2
    /\ closed = 2
    /\ conn = "closed"

(***************************************************************************)
(* ConcurrentSpec: call_tool coroutines in flight together                 *)
(***************************************************************************)

MaxInFlight == 2

Reqs == 1..MaxInFlight

\* a coroutine that has not been started
NoTask ==
    [pc |-> "idle", name |-> "", arguments |-> NoArgs, loc |-> NoArgs, ctx |-> <<>>,
     sql |-> <<>>, params |-> <<>>, conn |-> <<>>, opened |-> 0, fault |-> NoExc,
     response |-> <<>>]

\* the requests the clients make while others are in flight
ConcurrentCalls ==
    { <<"get_film_details", [NoArgs EXCEPT !.title = StrV(<<"L","o","v","e">>)]>>,
      <<"search_films", [NoArgs EXCEPT !.title = StrV(<<"L","o","v","e">>)]>>,
      <<"search_films", [NoArgs EXCEPT !.rating = StrV(<<"X">>)]>>,
      <<"unknown_tool", NoArgs>> }

ConcurrentResultSets(n) == { <<>>, <<GoodRow(n)>> }

\* the coroutine t after its handler went on from an await with outcome o
TaskAfter(t, o) ==
    CASE o.k = "query" -> [t EXCEPT !.pc = "connecting", !.sql = o.sql, !.params = o.params]
      [] o.k = "return" -> [t EXCEPT !.pc = "responded", !.response = Success(o.result)]
      [] OTHER -> [t EXCEPT !.pc = "responded", !.fault = o.exc,
                            !.response = Except(o.exc).response]

ConcurrentInit ==
    /\ Idle
    /\ fn = "none"
    /\ vin = None
    /\ vmax = 0
    /\ vout = Pending
    /\ tasks = [r \in Reqs |-> NoTask]
    /\ pool = {}

\* call_tool(n, args) of request r up to the first await of its handler
TaskCallTool(r, n, args) ==
    /\ tasks[r].pc = "idle"
    /\ LET t == [tasks[r] EXCEPT !.name = n, !.arguments = args] IN
       tasks' = [tasks EXCEPT ![r] =
          IF ~IsKnown(n)
          THEN [t EXCEPT !.pc = "responded", !.response = UnknownTool(n)]
          ELSE LET v == Validate(n, call_args(n, args)) IN
               IF v.exc.ty # "none"
               THEN [t EXCEPT !.pc = "responded", !.fault = v.exc,
                              !.response = Except(v.exc).response]
               ELSE TaskAfter([t EXCEPT !.loc = v.loc], Handler(n, v.loc, <<>>))]
    /\ UNCHANGED pool
    /\ UNCHANGED reqVars
    /\ UNCHANGED unitVars

TaskReceive == \E r \in Reqs : \E c \in ConcurrentCalls : TaskCallTool(r, c[1], c[2])

\* the connection named id, and the pool after it became c
Conn(id) == CHOOSE c \in pool : c.id = id

Becomes(id, c) == (pool \ {Conn(id)}) \cup {c}

\* the k-th connection request r opens
NewConn(r, k) == [id |-> <<r, k>>, owner |-> r, open |-> TRUE, users |-> {}]

\* every coroutine uses one module-level connection: the one that is open
TaskConnect_Shared(r) ==
    /\ tasks[r].pc = "connecting"
    /\ LET open == {c \in pool : c.open} IN
       IF open = {}
       THEN /\ pool' = pool \cup {NewConn(r, tasks[r].opened + 1)}
            /\ tasks' = [tasks EXCEPT ![r].pc = "executing",
                                      ![r].conn = <<r, tasks[r].opened + 1>>,
                                      ![r].opened = @ + 1]
       ELSE /\ pool' = pool
            /\ tasks' = [tasks EXCEPT ![r].pc = "executing",
                                      ![r].conn = (CHOOSE c \in open : TRUE).id]
    /\ UNCHANGED reqVars
    /\ UNCHANGED unitVars

\* get_connection, lines 128-131, in request r: a new connection, its own
TaskConnect(r) ==
    /\ tasks[r].pc = "connecting"
    /\ pool' = pool \cup {NewConn(r, tasks[r].opened + 1)}
    /\ tasks' = [tasks EXCEPT ![r].pc = "executing",
                              ![r].conn = <<r, tasks[r].opened + 1>>,
                              ![r].opened = @ + 1]
    /\ UNCHANGED reqVars
    /\ UNCHANGED unitVars

\* lines 148-149 in request r: cursor.execute on the connection it holds
TaskExecute(r) ==
    /\ tasks[r].pc = "executing"
    /\ pool' = Becomes(tasks[r].conn, [Conn(tasks[r].conn) EXCEPT !.users = @ \cup {r}])
    /\ tasks' = [tasks EXCEPT ![r].pc = "fetching"]
    /\ UNCHANGED reqVars
    /\ UNCHANGED unitVars

\* cursor.execute raises in request r; the finally of get_connection closes
TaskExecuteFails(r) ==
    /\ tasks[r].pc = "executing"
    /\ \E e \in DriverFaults :
          tasks' = [tasks EXCEPT ![r].pc = "responded", ![r].fault = e,
                                 ![r].response = Except(e).response]
    /\ pool' = Becomes(tasks[r].conn,
                       [Conn(tasks[r].conn) EXCEPT !.users = @ \cup {r}, !.open = FALSE])
    /\ UNCHANGED reqVars
    /\ UNCHANGED unitVars

\* lines 150-151 and 133 in request r: the rows, the close, and the handler
\* goes on to its next await or to its end
TaskFetch(r) ==
    /\ tasks[r].pc = "fetching"
    /\ \E rows \in ConcurrentResultSets(tasks[r].name) :
          LET t == [tasks[r] EXCEPT !.ctx = Append(@, rows)] IN
          tasks' = [tasks EXCEPT ![r] = TaskAfter(t, Handler(t.name, t.loc, t.ctx))]
    /\ pool' = Becomes(tasks[r].conn, [Conn(tasks[r].conn) EXCEPT !.open = FALSE])
    /\ UNCHANGED reqVars
    /\ UNCHANGED unitVars

ConcurrentNext ==
    \/ TaskReceive
    \/ \E r \in Reqs : TaskConnect(r)
    \/ \E r \in Reqs : TaskExecute(r)
    \/ \E r \in Reqs : TaskExecuteFails(r)
    \/ \E r \in Reqs : TaskFetch(r)

ConcurrentSpec == ConcurrentInit /\ [][ConcurrentNext]_vars

\* what call_tool(n, args) returns when it runs alone, the database answering
\* its queries with rs and, if flt is an exception, raising it on the next one
Alone(n, args, rs, flt) ==
    IF ~IsKnown(n) THEN UnknownTool(n)
    ELSE LET v == Validate(n, call_args(n, args)) IN
         IF v.exc.ty # "none" THEN Except(v.exc).response
         ELSE LET o == Handler(n, v.loc, rs) IN
              CASE o.k = "return" -> Success(o.result)
                [] o.k = "raise" -> Except(o.exc).response
                [] OTHER -> IF flt.ty # "none" THEN Except(flt).response ELSE <<>>

\* the connections request r holds open
OpenOf(r) == {c \in pool : c.owner = r /\ c.open}

\* no connection is used by a request that did not open it
NoSharedConnection == \A c \in pool : c.users \subseteq {c.owner}

\* a request that has returned answered what it answers alone
AnswersAsAlone ==
    \A r \in Reqs :
        tasks[r].pc = "responded" =>
            tasks[r].response =
                Alone(tasks[r].name, tasks[r].arguments, tasks[r].ctx, tasks[r].fault)

\* C26 as stated: with requests in flight together, in any interleaving, no
\* request opens more than one connection, no connection is used by two
\* requests, and each request answers what it answers when it runs alone
\* against the same database answers.
C26_OneConnectionPerRequest ==
    /\ \A r \in Reqs : tasks[r].opened <= 1
    /\ NoSharedConnection
    /\ AnswersAsAlone

\* C26 amended: with requests in flight together, in any interleaving, each
\* request opens one connection of its own for each of its queries (four at
\* most) and holds at most one of them open at a time, while that query runs;
\* no connection is used by two requests; and each request answers what it
\* answers when it runs alone against the same database answers.
C26_OneConnectionPerQuery ==
    /\ \A r \in Reqs :
          /\ tasks[r].opened = Cardinality({c \in pool : c.owner = r})
          /\ tasks[r].opened <= 4
          /\ Cardinality(OpenOf(r)) <= 1
          /\ OpenOf(r) # {} <=> tasks[r].pc \in {"executing", "fetching"}
          /\ OpenOf(r) # {} => OpenOf(r) = {Conn(tasks[r].conn)}
    /\ NoSharedConnection
    /\ AnswersAsAlone

\* two get_film_details requests are in flight together: each is running its
\* third query, on the third connection of its own, while the other's is open
C26_Witness ==
    /\ \A r \in Reqs :
          /\ tasks[r].name = "get_film_details"
          /\ tasks[r].pc = "fetching"
          /\ tasks[r].opened = 3
          /\ OpenOf(r) = {[id |-> <<r, 3>>, owner |-> r, open |-> TRUE, users |-> {r}]}
    /\ Cardinality(pool) = 3 * MaxInFlight

\* both requests in flight together have returned, get_film_details with the
\* film after four queries and search_films with the input error
C26_BothReturned ==
    /\ tasks[1].pc = "responded" /\ tasks[1].name = "get_film_details"
    /\ tasks[1].opened = 4 /\ tasks[1].fault = NoExc
    /\ tasks[2].pc = "responded" /\ tasks[2].name = "search_films"
    /\ tasks[2].fault.ty = "ValueError"

(***************************************************************************)
(* The order of the condition clauses and of the bound parameters          *)
(***************************************************************************)

\* the operations whose only query is built from optional condition clauses
ConditionalBuilders ==
    {"search_films", "search_customers", "get_overdue_rentals", "get_popular_films",
     "get_revenue_summary", "get_store_stats", "get_inventory_turnover",
     "get_category_performance", "get_underperforming_films"}

\* the arguments of each of them, in the order of its def line
Signature(n) ==
    CASE n = "search_films" ->
           <<"title", "category", "rating", "actor_name", "release_year", "limit">>
      [] n = "search_customers" -> <<"name", "email", "store_id", "active_only", "limit">>
      [] n = "get_overdue_rentals" -> <<"store_id", "days_overdue", "limit">>
      [] n = "get_popular_films" -> <<"period", "category", "store_id", "limit">>
      [] n = "get_revenue_summary" -> <<"group_by", "store_id">>
      [] n = "get_store_stats" -> <<"store_id">>
      [] n = "get_inventory_turnover" -> <<"store_id", "category">>
      [] n = "get_category_performance" -> <<"period", "store_id">>
      [] n = "get_underperforming_films" -> <<"days_not_rented", "store_id">>
      [] OTHER -> <<>>

SigIndex(n, a) == CHOOSE i \in 1..Len(Signature(n)) : Signature(n)[i] = a

\* where the k-th %s of the statement s stands
NthPlaceholder(s, k) ==
    CHOOSE i \in 1..Len(s) : s[i] = "%s" /\ Placeholders(SubSeq(s, 1, i)) = k

\* what the %s at position i is compared with, or LIMIT
ConditionedColumn(s, i) == IF s[i - 1] = "LIMIT" THEN "LIMIT" ELSE s[i - 2]

\* the argument whose clause conditions on the column col
ArgumentOf(col) ==
    CASE col = "f.title" -> "title"
      [] col = "c.name" -> "category"
      [] col = "f.rating" -> "rating"
      [] col = "CONCAT(a.first_name, ' ', a.last_name)" -> "actor_name"
      [] col = "f.release_year" -> "release_year"
      [] col = "CONCAT(c.first_name, ' ', c.last_name)" -> "name"
      [] col = "c.email" -> "email"
      [] col \in {"s.store_id", "i.store_id", "c.store_id"} -> "store_id"
      [] col = OVERDUE_DAYS -> "days_overdue"
      [] col = "DATEDIFF(CURDATE(), MAX(r.rental_date))" -> "days_not_rented"
      [] col = "LIMIT" -> "limit"
      [] OTHER -> "none"

\* the arguments the placeholders of s stand for, first placeholder first
PlaceholderArgs(s) ==
    [k \in 1..Placeholders(s) |-> ArgumentOf(ConditionedColumn(s, NthPlaceholder(s, k)))]

\* the value the builder binds for the argument a, from its locals l
BoundValue(a, l) ==
    CASE a \in {"title", "actor_name", "name", "email"} -> Like(l[a])
      [] a = "days_not_rented" -> IntV(Max(1, Min(365, l[a].n)))
      [] OTHER -> l[a]

\* the clauses of the query q of n stand in the order of n's signature
InSignatureOrder(n, q) ==
    LET as == PlaceholderArgs(q.sql) IN
    /\ \A k \in 1..Len(as) : \E i \in 1..Len(Signature(n)) : Signature(n)[i] = as[k]
    /\ \A j, k \in 1..Len(as) : j < k => SigIndex(n, as[j]) < SigIndex(n, as[k])

\* the k-th parameter of q is the value of the argument of its k-th placeholder
ParamsFollowPlaceholders(q, l) ==
    LET as == PlaceholderArgs(q.sql) IN
    /\ Len(q.params) = Len(as)
    /\ \A k \in 1..Len(as) : as[k] # "none" /\ q.params[k] = BoundValue(as[k], l)

\* C27 as stated: in every builder, for every subset of the optional arguments
\* supplied, the condition clauses stand in the order of the arguments in the
\* function signature, get_underperforming_films(days_not_rented, store_id)
\* included, and the parameters are in the order of the placeholders.
C27_ClausesInSignatureOrder ==
    \A i \in 1..Len(queries) :
        name \in ConditionalBuilders =>
            /\ InSignatureOrder(name, queries[i])
            /\ ParamsFollowPlaceholders(queries[i], loc)

\* C27 amended: in every builder, for every subset of the optional arguments
\* supplied, the parameters are in the order of the placeholders; the
\* condition clauses stand in the order of the arguments in the signature in
\* every builder but get_underperforming_films(days_not_rented, store_id),
\* where the store_id condition, when supplied, comes before the
\* days_not_rented condition, which is always there.
C27_ParamsInPlaceholderOrder ==
    \A i \in 1..Len(queries) :
        name \in ConditionalBuilders =>
            /\ ParamsFollowPlaceholders(queries[i], loc)
            /\ name # "get_underperforming_films" => InSignatureOrder(name, queries[i])
            /\ name = "get_underperforming_films" =>
                  PlaceholderArgs(queries[i].sql) \in
                      { <<"days_not_rented">>, <<"store_id", "days_not_rented">> }

\* get_underperforming_films asked for one store: the store, then the days
C27_Witness ==
    /\ name = "get_underperforming_films"
    /\ Len(queries) = 1
    /\ PlaceholderArgs(queries[1].sql) = <<"store_id", "days_not_rented">>
    /\ queries[1].params = <<loc.store_id, IntV(Max(1, Min(365, loc.days_not_rented.n)))>>
    /\ loc.store_id # queries[1].params[2]

\* a listing with two optional filters supplied, different values, and a limit
C27_TwoFilters ==
    /\ name = "get_popular_films"
    /\ Len(queries) = 1
    /\ PlaceholderArgs(queries[1].sql) = <<"category", "store_id", "limit">>
    /\ queries[1].params = <<loc.category, loc.store_id, loc.limit>>
    /\ loc.store_id # loc.limit

(***************************************************************************)
(* The place of the LIMIT clause                                           *)
(***************************************************************************)

\* the LIMIT clause of q is its last fragment, and it has no other
LimitIsLastFragment(q) ==
    {i \in 1..Len(q.sql) : q.sql[i] = "LIMIT"} = {Len(q.sql) - 1}

\* the lookups that take the first match, with the literal LIMIT 1
FirstMatchOps ==
    {"get_film_details", "check_film_availability", "get_actor_filmography",
     "get_customer_details"}

\* C28 as stated: in every query containing a LIMIT clause, that clause is the
\* last fragment of the statement and the limit value is the last bound
\* parameter, never written in the SQL text.
C28_LimitAlwaysBound ==
    \A i \in 1..Len(queries) :
        HasLimit(queries[i]) =>
            /\ LimitIsLastFragment(queries[i])
            /\ HasBoundLimit(queries[i])
            /\ Len(queries[i].params) >= 1
            /\ BoundLimit(queries[i]) = loc.limit

\* C28 amended: in every query containing a LIMIT clause, that clause is the
\* last fragment of the statement; a limit that comes from the caller (the six
\* limit-accepting listings) is the last bound parameter, never written in the
\* SQL text; the fixed limits are written in the SQL text: LIMIT 1 in the
\* first-match lookups and LIMIT 50 in get_inventory_turnover and
\* get_underperforming_films.
C28_LimitLastAndBoundWhenGiven ==
    \A i \in 1..Len(queries) :
        LET q == queries[i] IN
        HasLimit(q) =>
            /\ LimitIsLastFragment(q)
            /\ CASE q.sql[Len(q.sql)] = "%s" ->
                      /\ name \in LimitOps
                      /\ Len(q.params) = Placeholders(q.sql)
                      /\ BoundLimit(q) = loc.limit
                 [] q.sql[Len(q.sql)] = "1" -> name \in FirstMatchOps /\ i = 1
                 [] q.sql[Len(q.sql)] = "50" -> name \in FixedLimitOps /\ i = 1
                 [] OTHER -> FALSE

\* search_customers with a name filter and limit 5: the query ends with
\* ORDER BY ... LIMIT %s and 5 is the last of its two parameters
C28_Witness ==
    /\ name = "search_customers"
    /\ Len(queries) = 1
    /\ LimitIsLastFragment(queries[1])
    /\ HasBoundLimit(queries[1])
    /\ Len(queries[1].params) >= 2
    /\ BoundLimit(queries[1]) = loc.limit
    /\ queries[1].params[1] # loc.limit

\* get_inventory_turnover: the limit 50 is in the statement, nothing is bound
C28_LiteralLimit ==
    /\ name = "get_inventory_turnover"
    /\ Len(queries) = 1
    /\ HasFixedLimit(queries[1])
    /\ queries[1].params = <<>>

(***************************************************************************)
(* Round-trips of one request                                              *)
(***************************************************************************)

\* the number of queries an operation runs when its primary lookup finds a row
RoundTrips(n) ==
    CASE n \in {"get_film_details", "get_customer_activity"} -> 4
      [] n = "get_customer_rentals" -> 3
      [] n \in {"check_film_availability", "get_actor_filmography",
                "get_customer_details"} -> 2
      [] OTHER -> 1

\* the queries of the request run one after the other: a query is built only
\* when every earlier one has been answered
Sequential ==
    /\ Len(queries) <= Len(ctx) + 1
    /\ pc \in {"connecting", "executing", "fetching"} => Len(queries) = Len(ctx) + 1
    /\ pc = "responded" /\ fault = NoFault => Len(queries) = Len(ctx)

\* one round-trip, or a fixed sequence of at most four
FixedSequence ==
    /\ Len(queries) <= RoundTrips(name)
    /\ RoundTrips(name) <= 4
    /\ pc = "responded" /\ fault = NoFault /\ IsKnown(name) =>
          \/ Len(queries) = RoundTrips(name)
          \/ name \in LookupOps /\ Len(queries) = 1 /\ ctx[1] = <<>>

\* the follow-up queries of the request are keyed on the key column of the
\* row its primary lookup returned
KeyedOnResolved ==
    \A i \in 2..Len(queries) :
        ctx[1][1].wf => queries[i].params[1] = ctx[1][1].key

\* C29 as stated: a request performs one round-trip or a fixed sequence of at
\* most four, one after the other, and in the multi-step lookups every
\* follow-up query is keyed on the value the primary lookup returned (resolved
\* title, actor_id, customer_id).
C29_FollowUpsKeyedOnResolved ==
    /\ Sequential
    /\ FixedSequence
    /\ name \in LookupOps => KeyedOnResolved

\* C29 amended: a request performs one round-trip or a fixed sequence of at
\* most four, one after the other; in get_film_details,
\* check_film_availability, get_actor_filmography and get_customer_details
\* every follow-up query is keyed on the value the primary lookup returned
\* (resolved title, actor_id, customer_id), never on the caller's search
\* string; in get_customer_rentals the follow-up queries are keyed on the
\* caller's customer_id argument, the value the primary lookup was keyed on.
C29_FollowUpsKeyedOnResolvedOrId ==
    /\ Sequential
    /\ FixedSequence
    /\ name \in LookupOps \ {"get_customer_rentals"} => KeyedOnResolved
    /\ name = "get_customer_rentals" =>
          \A i \in 1..Len(queries) : queries[i].params[1] = loc.customer_id

\* get_film_details "Love": four queries, the last three keyed on the title
\* the first one returned, which is not the caller's pattern
C29_Witness ==
    /\ name = "get_film_details"
    /\ pc = "responded"
    /\ fault = NoFault
    /\ Len(queries) = 4
    /\ queries[1].params = <<Like(loc.title)>>
    /\ \A i \in 2..4 : queries[i].params = <<ctx[1][1].key>>
    /\ ctx[1][1].key # loc.title
    /\ ctx[1][1].key # Like(loc.title)

\* get_customer_rentals "7": the customer found is 7, the rentals and the
\* count are asked for "7"
C29_KeyedOnArgument ==
    /\ name = "get_customer_rentals"
    /\ pc = "responded"
    /\ fault = NoFault
    /\ Len(queries) = 3
    /\ ctx[1][1].key = IntV(7)
    /\ \A i \in 1..3 : queries[i].params[1] = StrV(<<"7">>)

(***************************************************************************)
(* The identifier of get_customer_details                                  *)
(***************************************************************************)

\* the identifiers call_tool hands to get_customer_details
GivenCustomerId == call_args("get_customer_details", arguments).customer_id
GivenEmail == call_args("get_customer_details", arguments).email

\* the lookup query of the request filters on col alone, with operator op, and
\* binds v alone
LooksUpBy(col, op, v) ==
    LET q == queries[1] IN
    /\ Placeholders(q.sql) = 1
    /\ q.params = <<v>>
    /\ LET i == NthPlaceholder(q.sql, 1) IN
       /\ q.sql[i - 2] = col
       /\ q.sql[i - 1] = op
    /\ \A j \in 1..Len(q.sql) :
          q.sql[j] \in {"c.customer_id", "c.email"} => q.sql[j] = col

\* C30: get_customer_details with customer_id and email both absent or falsy
\* (customer_id 0 and no email included) is answered with an input error
\* before any query; with a truthy customer_id the lookup filters by
\* customer_id only and ignores email; only when customer_id is absent or
\* falsy does it look up by partial email match; the lookup query has exactly
\* one bound parameter.
C30_IdentifierRequiredIdPreferred ==
    name = "get_customer_details" /\ pc # "idle" =>
        /\ ~Truthy(GivenCustomerId) /\ ~Truthy(GivenEmail) =>
              /\ pc = "responded"
              /\ fault.at = "validation"
              /\ fault.exc = Exc("ValueError", <<CUSTOMER_REQUIRED>>)
              /\ IsInputError
              /\ queries = <<>>
              /\ conn = "none"
        /\ Truthy(GivenCustomerId) \/ Truthy(GivenEmail) => Len(queries) >= 1
        /\ Len(queries) >= 1 =>
              IF Truthy(GivenCustomerId)
              THEN LooksUpBy("c.customer_id", "=", GivenCustomerId)
              ELSE /\ Truthy(GivenEmail)
                   /\ LooksUpBy("c.email", "LIKE", Like(GivenEmail))

\* customer_id 7 and an email both given: the lookup is by customer_id 7 alone
C30_Witness ==
    /\ name = "get_customer_details"
    /\ arguments.customer_id = IntV(7)
    /\ arguments.email = StrV(<<"@example.com">>)
    /\ Len(queries) >= 1
    /\ queries[1].params = <<IntV(7)>>
    /\ LooksUpBy("c.customer_id", "=", IntV(7))

\* customer_id 0 and no email: the input error, and nothing was asked
C30_ZeroIdRejected ==
    /\ name = "get_customer_details"
    /\ arguments.customer_id = IntV(0)
    /\ arguments.email = ABSENT
    /\ pc = "responded"
    /\ IsInputError
    /\ queries = <<>>

\* customer_id 0 and an email: the lookup is by the email pattern
C30_FallsBackToEmail ==
    /\ name = "get_customer_details"
    /\ arguments.customer_id = IntV(0)
    /\ arguments.email = StrV(<<"@example.com">>)
    /\ Len(queries) >= 1
    /\ LooksUpBy("c.email", "LIKE", StrV(<<"%", "@example.com", "%">>))

====
